---- MODULE Spec2Model ----
(***************************************************************************)
(* A model of naasher's build pipeline (src/naasher/build.py):             *)
(* build_static_site ingests the source tree into static_site_data, walks  *)
(* the tree writing one output per file and one index.html per directory,  *)
(* and then resolves the theme dependencies the rendered pages reference.  *)
(*                                                                         *)
(* Strings whose characters matter (directory names, item ids) are         *)
(* sequences of one-character strings; a file name is a record of its stem *)
(* and its suffix, a path a record of its directory and its file name.     *)
(***************************************************************************)
EXTENDS Integers, Sequences, FiniteSets, TLC

VARIABLES
    force_recreation,        \* the force_recreation argument of the running build
    build,                   \* number of the running build (1 = first)
    srcDirs,                 \* the directories of the source tree (paths from the root)
    srcMeta,                 \* directory -> keys of its meta.json ({} = no or empty meta.json)
    srcMds,                  \* directory -> stems of its *.md fragments
    srcFiles,                \* the non-reserved files of the source tree (paths)
    srcText,                 \* source file -> its text
    failing,                 \* output paths whose template render raises
    theme,                   \* theme path -> what the theme holds there
    pageDeps,                \* the referencing elements of a rendered index.html
    initFiles,               \* the output files present before the first build
    unreadable,              \* directories whose meta.json or *.md cannot be read or parsed
    out,                     \* output path -> content of the file, Absent if none
    outDirs,                 \* output directories that exist
    static_site_data,        \* the content graph, in insertion order
    dependencies,            \* the shared dependency list / the resolver's frontier
    next_level_dependencies, \* the resolver's next frontier
    dep_i,                   \* position of the resolver's for loop in dependencies
    pc,                      \* phase of the build
    gstack,                  \* call stack of gather_data_from_source_tree
    wstack,                  \* call stack of generate_static_site_item
    lastRender,              \* item id and children view of the latest template render
    written,                 \* path -> writes of the running build (2 = more than one)
    raised,                  \* the latest step ran a byte producer that raised
    frontier,                \* the dependencies the resolver's for loop was given
    parsed,                  \* the .css dependencies the resolver has read
    missing_resources,       \* the names get_theme_resource did not find
    warnings,                \* per resource name, the warnings logged for it
    index_attempts,          \* per directory, the calls of write_bytes for its index.html
    probe                    \* the latest direct call of write_bytes or of a helper

vars == <<force_recreation, build, srcDirs, srcMeta, srcMds, srcFiles, srcText, failing,
          theme, pageDeps, initFiles, unreadable, out, outDirs, static_site_data, dependencies,
          next_level_dependencies, dep_i, pc, gstack, wstack, lastRender,
          written, raised, frontier, parsed, missing_resources, warnings,
          index_attempts, probe>>

----------------------------------------------------------------------------
(* Bounds of the model.                                                    *)

\* directories of a source tree, the root included
MaxDirs == 3
\* nesting depth of a source directory below the root
MaxDepth == 2
\* url(...) references in the @font-face blocks of one stylesheet
MaxUrls == 1
\* files present in the output directory before the first build
MaxInitFiles == 1
\* builds run one after the other over the same output directory
MaxBuilds == 2
\* consecutive Gregorian years, from 1999 on, whose dates are converted
MaxYears == 28
\* items of a list given to sort_by_date
MaxItems == 3
\* the latest date of an item, in days from 0001-01-01 = 1
MaxDate == 3
\* lines of a parsed markdown text
MaxLines == 4

----------------------------------------------------------------------------
(* Strings, names and paths.                                               *)

Absent == "absent"
None == "None"
Raise == "raise"

Root == <<>>
DirNames == { <<"a">>, <<"a", "b">> }

DirPaths == UNION { [1..k -> DirNames] : k \in 0..MaxDepth }

Parent(p) == SubSeq(p, 1, Len(p) - 1)

IsTree(T) == Root \in T /\ \A p \in T : p # Root => Parent(p) \in T

Trees(n) == { T \in SUBSET DirPaths : IsTree(T) /\ Cardinality(T) <= n }

SubDirs(T, p) == { c \in T : c # Root /\ Parent(c) = p }

Ancestors(p) == { SubSeq(p, 1, k) : k \in 0..Len(p) }

\* str.startswith
StartsWith(s, prefix) ==
    Len(s) >= Len(prefix) /\ SubSeq(s, 1, Len(prefix)) = prefix

\* PurePath.as_posix of a relative path: the names joined by "/", "." when empty
RECURSIVE as_posix(_)
as_posix(p) ==
    IF p = Root THEN <<".">>
    ELSE IF Len(p) = 1 THEN p[1]
    ELSE as_posix(Parent(p)) \o <<"/">> \o p[Len(p)]

id__(p) == as_posix(p)

File(stem, suffix) == [stem |-> stem, suffix |-> suffix]
Path(dir, name) == [dir |-> dir, name |-> name]

IndexHtml == File("index", ".html")
with_suffix(path, suffix) == Path(path.dir, File(path.name.stem, suffix))

\* the files a source directory may hold besides meta.json and *.md
SrcFileNames == { File("x", ".png"), File("s", ".css"), File("s", ".js") }
\* the theme's asset directory and the files it may hold
ThemeDir == << <<"a">> >>
CssNames == { File("t", ".css"), File("u", ".css") }
FontName == File("f", ".woff")
JsonName == File("t", ".json")
ThemeNames == CssNames \cup {FontName, JsonName}
ThemePaths == { Path(ThemeDir, n) : n \in ThemeNames }
\* what url(...) of an @font-face block may name
Urls == { File("t", ".css"), FontName }

\* the path segment ".." and the reference "/../t.css" of a page, which the
\* scan turns into the dependency "../t.css"
Up == <<".", ".">>
EscPath == Path(<<Up>>, File("t", ".css"))

\* whether root / d, for a relative directory d, lies outside root: some
\* prefix of d goes up more often than down
Escapes(d) ==
    \E k \in 1..Len(d) :
        Cardinality({ i \in 1..k : d[i] = Up }) > Cardinality({ i \in 1..k : d[i] # Up })

\* the paths a build may write, relative to the build root
OutPaths ==
    { Path(d, IndexHtml) : d \in DirPaths }
        \cup { Path(Root, n) : n \in SrcFileNames }
        \cup ThemePaths
        \cup {EscPath}

\* the permutations of a finite set, as sequences
Perms(S) ==
    { s \in [1..Cardinality(S) -> S] : \A i, j \in DOMAIN s : i # j => s[i] # s[j] }

\* the elements of a sequence
Range(s) == { s[i] : i \in DOMAIN s }

----------------------------------------------------------------------------
(* The output tree and write_bytes.                                        *)

\* the texts of the source files: without a line end at its end, with one,
\* and with a template expression
SrcTexts == { "src", "src\n", "{{ 1 }}src" }

\* the text comes out as it is
read_text(text) == text

\* jinja_env.from_string(text).render(...): a template drops the line end at
\* its end and puts the value of an expression in its place
from_string(text) ==
    CASE text = "src" -> "src"
      [] text = "src\n" -> "src"
      [] text = "{{ 1 }}src" -> "1src"

\* contents of a file: what was there before the first build, a copy of a
\* source file, a rendered source file, a rendered index.html, the bytes of a
\* theme file, a synthesized font stylesheet
Contents ==
    { "old", "tpl", "page", "theme", "synth" } \cup SrcTexts
        \cup { from_string(t) : t \in SrcTexts }

\* a guard that keeps every existing file, forced or not
KeepsExisting(fs, force, path) == fs[path] # Absent
KeepsUnlessForced(fs, force, path) == ~force /\ fs[path] # Absent

\* the guard of write_bytes: the existing file is kept, the producer not run
Keeps(fs, force, path) ==
    (~force \/ path.name.suffix \notin {".html", ".css"}) /\ fs[path] # Absent

\* a write that only replaces the content of an existing file
write_bytes_existing(fs, force, path, res) ==
    IF fs[path] = Absent \/ res \in {Raise, None} THEN fs ELSE [fs EXCEPT ![path] = res]

\* the output tree after write_bytes(path, get_bytes), res being what get_bytes
\* returns when it is run: content, None, or Raise for an exception
write_bytes(fs, force, path, res) ==
    IF Keeps(fs, force, path) THEN fs
    ELSE IF res = Raise THEN fs
    ELSE IF res # None THEN [fs EXCEPT ![path] = res]
    ELSE fs

\* whether write_bytes(path, get_bytes) reaches path.write_bytes(content)
Writes(fs, force, path, res) ==
    ~Keeps(fs, force, path) /\ res \notin {Raise, None}

\* the write counts after one more write of path
Count(w, path) == [w EXCEPT ![path] = IF @ < 2 THEN @ + 1 ELSE @]

\* Path.mkdir(parents=True, exist_ok=True)
mkdir(dirs, d) == dirs \cup Ancestors(d)

----------------------------------------------------------------------------
(* The theme.                                                              *)

NoFile == [kind |-> "none", urls |-> {}, stems |-> {}]
\* a stylesheet whose @font-face blocks hold url(u) for the u of urls
CssFile(urls) == [kind |-> "file", urls |-> urls, stems |-> {}]
PlainFile == CssFile({})
\* a font description whose "files" object has the keys stems
JsonFile(stems) == [kind |-> "file", urls |-> {}, stems |-> stems]

ThemeChoices(p) ==
    IF p.name \in CssNames
    THEN {NoFile} \cup { CssFile(U) : U \in { V \in SUBSET Urls : Cardinality(V) <= MaxUrls } }
    ELSE IF p.name = JsonName THEN {NoFile, JsonFile({FontName.stem})}
    ELSE {NoFile, PlainFile}

Themes == { th \in [ThemePaths -> UNION { ThemeChoices(p) : p \in ThemePaths }] :
              \A p \in ThemePaths : th[p] \in ThemeChoices(p) }

\* Path.exists under the theme root
Exists(th, p) == p \in DOMAIN th /\ th[p].kind = "file"

\* get_fontface_def: the url(...) entries of the rule of one file stem; the
\* description supplies a font-family, and a rule with no font file is dropped
FontFiles(th, json, stem) ==
    { f \in {File(stem, ".woff")} : Exists(th, Path(json.dir, f)) }

\* get_font_css_content_reader.read_bytes: the urls of the synthesized
\* stylesheet; with none of them read_bytes raises ValueError
SynthUrls(th, json) ==
    UNION { FontFiles(th, json, stem) : stem \in th[json].stems }

\* a choice that prefers the synthesized stylesheet to the theme file
ReaderSynthFirst(th, dep) ==
    IF dep.name.suffix = ".css" /\ Exists(th, with_suffix(dep, ".json")) THEN "synth"
    ELSE IF Exists(th, dep) THEN "theme" ELSE None

\* which reader the resolver picks for a dependency: the theme file, the
\* synthesized stylesheet, or none
Reader(th, dep) ==
    IF ~Exists(th, dep)
    THEN IF dep.name.suffix = ".css" /\ Exists(th, with_suffix(dep, ".json"))
         THEN "synth"
         ELSE None
    ELSE "theme"

rooted_font_paths(dep, urls) == { Path(Root, u) : u \in urls }

\* get_referenced_font_paths: each url relative to the dependency's directory
get_referenced_font_paths(dep, urls) == { Path(dep.dir, u) : u \in urls }

----------------------------------------------------------------------------
(* The content graph.                                                      *)

Item(id, meta, mds) == [id |-> id, meta |-> meta, mds |-> mds]

Keys(ssd) == { ssd[i].id : i \in DOMAIN ssd }

\* a dict that puts a new key first
DictSetFirst(ssd, item) ==
    IF item.id \in { ssd[i].id : i \in DOMAIN ssd } THEN ssd ELSE <<item>> \o ssd

\* dict.__setitem__: a new key goes last, an existing key keeps its place
DictSet(ssd, item) ==
    IF item.id \in Keys(ssd)
    THEN [i \in DOMAIN ssd |-> IF ssd[i].id = item.id THEN item ELSE ssd[i]]
    ELSE Append(ssd, item)

\* the fragments of an item of the content graph
MdsOf(ssd, id) ==
    UNION { ssd[i].mds : i \in { j \in DOMAIN ssd : ssd[j].id = id } }

\* A template name is a pair: a literal name of the code is the name and <<>>,
\* the value of a template key of a meta.json is the key and the id of the
\* item that sets it, so that every setting names its own template.
Literal(name) == <<name, <<>>>>
NoTemplate == Literal("")
meta_value(item_id, key) == <<key, item_id>>

\* a lookup that ignores the metadata
meta_default(meta, item_id, key, default) == default

\* meta[key] if key in meta, else default
meta_get(meta, item_id, key, default) ==
    IF key \in meta THEN meta_value(item_id, key) ELSE default

\* the ids of the children view render_template builds for item_id
Children(ssd, item_id) ==
    LET keep(it) == StartsWith(it.id, item_id) /\ Len(it.id) > Len(item_id)
        kept == SelectSeq(ssd, keep)
    IN  [i \in DOMAIN kept |-> kept[i].id]

----------------------------------------------------------------------------
(* The helper functions handed to templates (create_utility_function_dict). *)
(* A value is a record of its type and its text, a sequence of tokens.      *)

Val(kind, val) == [kind |-> kind, val |-> val]
NoneVal == Val("None", <<>>)
RaiseVal == Val("raise", <<>>)
Str(s) == Val("str", s)

\* what a template may pass to a helper: strings, None, a number, mappings
\* with and without an author, a timestamp, a list of undated entries
Args ==
    { Str(<<"a">>), Str(<<"z">>), Str(<<"title">>), Str(<<"t", ".css">>),
      NoneVal, Val("int", <<"7">>),
      Val("dict", <<"author">>), Val("dict", <<>>), Val("datetime", <<"2024">>),
      Val("list", <<Str(<<"p">>), Str(<<"q">>)>>) }

\* pattern in s, for strings
Contains(s, pattern) ==
    \E i \in 0..(Len(s) - Len(pattern)) : SubSeq(s, i + 1, i + Len(pattern)) = pattern

\* the metadata of an item of the content graph, {} when it has no item
MetaOf(ssd, id) ==
    UNION { ssd[i].meta : i \in { j \in DOMAIN ssd : ssd[j].id = id } }

\* find_url: the first id containing the criterion; `citeria in k` raises
\* TypeError for a criterion that is not a string
find_url(ssd, citeria) ==
    IF ssd # <<>> /\ citeria.kind # "str" THEN RaiseVal
    ELSE LET hits == { i \in DOMAIN ssd : Contains(ssd[i].id, citeria.val) }
         IN  IF hits = {} THEN Str(<<"?error=url_could_not_be_found">>)
             ELSE Str(<<"/">> \o ssd[CHOOSE i \in hits : \A j \in hits : i <= j].id)

\* find_info: the root item's value of the key; static_site_data["."] raises
\* KeyError without a root item, `id in meta` TypeError for an unhashable id
find_info(ssd, id) ==
    IF <<".">> \notin Keys(ssd) \/ id.kind \in {"list", "dict"} THEN RaiseVal
    ELSE IF id.kind = "str" /\ Len(id.val) = 1 /\ id.val[1] \in MetaOf(ssd, <<".">>)
         THEN Val("meta", id.val)
         ELSE Str(<<"?error=info_could_not_be_found">>)

find_lang(ssd, id) == find_url(ssd, id)

\* handle_math: a string without a math span is escaped as a whole; len(text)
\* raises TypeError for what has no length, re.search for a non-empty
\* container, and an empty container gives the empty markup
handle_math(text) ==
    IF text.kind = "str" THEN Val("markup", text.val)
    ELSE IF text.kind \in {"dict", "list"} /\ text.val = <<>> THEN Val("markup", <<>>)
    ELSE RaiseVal

\* short_gregorian, short_solar_hijri: jstrftime reads the fields of a datetime
\* and raises AttributeError for anything else
short_gregorian(d) ==
    IF d.kind # "datetime" THEN RaiseVal ELSE Str(<<"%b, %u %Y">> \o d.val)

short_solar_hijri(d) ==
    IF d.kind # "datetime" THEN RaiseVal ELSE Str(<<"%x %B %YSHC">> \o d.val)

\* get_author: `"author" in meta` raises TypeError for what is no container
get_author(ssd, meta) ==
    IF meta.kind \in {"None", "int", "datetime"} THEN RaiseVal
    ELSE IF meta.kind = "dict" /\ "author" \in Range(meta.val)
    THEN Val("meta", <<"author">>)
    ELSE IF <<".">> \notin Keys(ssd) THEN RaiseVal
    ELSE IF "author" \in MetaOf(ssd, <<".">>) THEN Val("meta", <<"author">>)
    ELSE Str(<<"Behrooz Vedadian">>)

\* an object with a date attribute ("obj") or a mapping with a "date" key
\* ("dict"); the date is a day number, 0 for None
Dated(kind, d) == [kind |-> kind, val |-> <<>>, date |-> d]

\* sort_by_date.__find_date: the pair (succeeded, value)
RECURSIVE find_date(_)
find_date(item) ==
    IF item.kind = "obj" THEN <<TRUE, item.date>>
    ELSE IF item.kind = "dict" /\ "date" \in DOMAIN item THEN <<TRUE, item.date>>
    ELSE IF item.kind \in {"tuple", "list"}
    THEN LET hits == { i \in DOMAIN item.val : find_date(item.val[i])[1] }
         IN  IF hits = {} THEN <<FALSE, 0>>
             ELSE find_date(item.val[CHOOSE i \in hits : \A j \in hits : i <= j])
    ELSE <<FALSE, 0>>

\* sort_by_date.__key: `value or min_datetime`, datetime.fromordinal(1) without
\* a date
sort_key(item) ==
    LET found == find_date(item)
    IN  IF found[1] /\ found[2] # 0 THEN found[2] ELSE 1

\* an insertion that puts x before the items of its own key
insert_first(s, x) ==
    LET n == Cardinality({ i \in DOMAIN s : sort_key(s[i]) > sort_key(x) })
    IN  SubSeq(s, 1, n) \o <<x>> \o SubSeq(s, n + 1, Len(s))

\* the place a stable descending sort gives x, the latest of the input, in the
\* sorted items s before it: after every item whose key is not smaller
insert_desc(s, x) ==
    LET n == Cardinality({ i \in DOMAIN s : sort_key(s[i]) >= sort_key(x) })
    IN  SubSeq(s, 1, n) \o <<x>> \o SubSeq(s, n + 1, Len(s))

\* sorted(iterable, key=__key, reverse=True)
RECURSIVE sorted_desc(_)
sorted_desc(s) ==
    IF s = <<>> THEN <<>>
    ELSE insert_desc(sorted_desc(SubSeq(s, 1, Len(s) - 1)), s[Len(s)])

\* sort_by_date: sorted raises TypeError for what cannot be iterated; the
\* characters of a string and the keys of a mapping have no date, all get the
\* same key and keep their order
sort_by_date(iterable) ==
    IF iterable.kind \in {"None", "int", "datetime"} THEN RaiseVal
    ELSE IF iterable.kind \in {"list", "tuple"}
    THEN Val("list", sorted_desc(iterable.val))
    ELSE Val("list", iterable.val)

\* names if isinstance(names, list) else [names]
NameList(names) == IF names.kind = "list" THEN names.val ELSE <<names>>

\* THEME_PATH.glob(f"**/{name}"): the files of the theme with the name
Glob(th, name) ==
    { p \in DOMAIN th : th[p].kind = "file" /\ <<p.name.stem, p.name.suffix>> = name.val }

\* "/" + str(resource.relative_to(THEME_PATH)) for the file the glob gives
ResourceUrl(th, name) ==
    Str(<<"/">> \o as_posix((CHOOSE p \in Glob(th, name) : TRUE).dir)
          \o <<"/">> \o name.val)

\* `if names:` and `if default:`
Truthy(v) == v.kind # "None" /\ v.val # <<>>

\* get_theme_resource(names, default): the first file of the theme with one
\* of the names, else the file with the default name, else "#"
get_theme_resource_or(th, names, default) ==
    LET seq == IF Truthy(names) THEN NameList(names) ELSE <<>>
        found == { i \in DOMAIN seq : Glob(th, seq[i]) # {} }
    IN  IF found # {}
        THEN ResourceUrl(th, seq[CHOOSE i \in found : \A j \in found : i <= j])
        ELSE IF Truthy(default) /\ Glob(th, default) # {}
        THEN ResourceUrl(th, default)
        ELSE Str(<<"#">>)

\* get_theme_resource(names), without a default
get_theme_resource(th, names) == get_theme_resource_or(th, names, NoneVal)

\* the names a call of get_theme_resource(names) adds to missing_resources:
\* the name the loop ended with, when no file of the theme has any of them
get_theme_resource_missing(th, names) ==
    IF ~Truthy(names) THEN {}
    ELSE LET seq == NameList(names)
         IN  IF \E i \in DOMAIN seq : Glob(th, seq[i]) # {} THEN {}
             ELSE {seq[Len(seq)].val}

\* the resource names a page template asks get_theme_resource for
LookupNames == { <<"t", ".css">> }

\* what the render of a page adds to missing_resources
PageLookups(th) == UNION { get_theme_resource_missing(th, Str(n)) : n \in LookupNames }

\* the callables among the locals of create_utility_function_dict
Locals ==
    { "find_url", "find_info", "find_lang", "handle_math", "short_gregorian",
      "short_solar_hijri", "get_author", "sort_by_date", "get_theme_resource",
      "shield" }

\* the call of a helper by its name
Helper(name, ssd, th, arg) ==
    CASE name = "find_url" -> find_url(ssd, arg)
      [] name = "find_info" -> find_info(ssd, arg)
      [] name = "find_lang" -> find_lang(ssd, arg)
      [] name = "handle_math" -> handle_math(arg)
      [] name = "short_gregorian" -> short_gregorian(arg)
      [] name = "short_solar_hijri" -> short_solar_hijri(arg)
      [] name = "get_author" -> get_author(ssd, arg)
      [] name = "sort_by_date" -> sort_by_date(arg)
      [] name = "get_theme_resource" -> get_theme_resource(th, arg)

\* a wrapper that lets the exception through
shield_reraise(raw) == raw

\* shield: the wrapper returns what f returns, None when f raises
shield(raw) == IF raw.kind = "raise" THEN NoneVal ELSE raw

\* the dict create_utility_function_dict returns: every callable local but
\* shield, wrapped
utility_funcs == { name \in Locals : name # "shield" }

----------------------------------------------------------------------------
(* The initial states: a source tree, a theme and an output directory.     *)

NoRender == [item_id |-> <<>>, children |-> <<>>, css |-> <<>>, js |-> <<>>,
             template_name |-> NoTemplate,
             default_template_name |-> NoTemplate,
             default_dir_listing_template_name |-> NoTemplate]
NoProbe == [fn |-> "", arg |-> NoneVal, raw |-> NoneVal, res |-> NoneVal,
            path |-> Path(Root, IndexHtml), get_bytes |-> None, pre |-> Absent,
            ran |-> FALSE]

CssPaths == { Path(ThemeDir, n) : n \in CssNames }

\* the document order of the references of a page
RECURSIVE SeqOf(_)
SeqOf(S) ==
    IF S = {} THEN <<>>
    ELSE LET x == CHOOSE y \in S : TRUE IN <<x>> \o SeqOf(S \ {x})

\* the indexes and rendered files of a tree: the outputs a template produces
\* An element of a rendered page that carries a reference: its tag, whether it
\* stands in the head or in the body, its rel attribute, the attribute that
\* holds the reference (href or src), whether the reference starts with "/",
\* and the path that follows.
Element(tag, place, rel, attr, rooted, path) ==
    [tag |-> tag, place |-> place, rel |-> rel, attr |-> attr, rooted |-> rooted,
     path |-> path]

\* <link rel="stylesheet" href="/path"> in the head, for every path of S
StyleLinks(S) == { Element("link", "head", "stylesheet", "href", TRUE, p) : p \in S }

\* the scan of create_index_html_contents: the stylesheet links of the head
\* whose href starts with "/", then the elements of the body whose src does
Scan(page) ==
    SeqOf({ e.path : e \in { l \in page : /\ l.place = "head"
                                           /\ l.tag = "link"
                                           /\ l.attr = "href"
                                           /\ l.rel = "stylesheet"
                                           /\ l.rooted } })
      \o SeqOf({ e.path : e \in { x \in page : /\ x.place = "body"
                                               /\ x.attr = "src"
                                               /\ x.rooted } })

Rendered(T, F) ==
    { Path(d, IndexHtml) : d \in T } \cup { f \in F : f.name.suffix \in {".js", ".css"} }

Small(S, n) == { X \in SUBSET S : Cardinality(X) <= n }

\* an output directory holding the files of S, left by something else
InitOut(S) == [p \in OutPaths |-> IF p \in S THEN "old" ELSE Absent]

BuildInit(trees, fileSets, texts, metaSets, mdSets, maxFailing, themes, depSets, initSets) ==
    /\ force_recreation \in BOOLEAN
    /\ build = 1
    /\ srcDirs \in trees
    /\ srcMeta \in [srcDirs -> metaSets]
    /\ srcMds \in [srcDirs -> mdSets]
    /\ srcFiles \in fileSets
    /\ srcText \in [srcFiles -> texts]
    /\ failing \in Small(Rendered(srcDirs, srcFiles), maxFailing)
    /\ theme \in themes
    /\ pageDeps \in depSets
    /\ initFiles \in initSets
    /\ unreadable \in Small(srcDirs, 1)
    /\ out = InitOut(initFiles)
    /\ outDirs = UNION { Ancestors(p.dir) : p \in initFiles }
    /\ static_site_data = <<>>
    /\ dependencies = <<>>
    /\ next_level_dependencies = <<>>
    /\ dep_i = 0
    /\ pc = "start"
    /\ gstack = <<>>
    /\ wstack = <<>>
    /\ lastRender = NoRender
    /\ written = [p \in OutPaths |-> 0]
    /\ raised = FALSE
    /\ frontier = {}
    /\ parsed = {}
    /\ missing_resources = {}
    /\ warnings = [r \in LookupNames |-> 0]
    /\ index_attempts = [d \in srcDirs |-> 0]
    /\ probe = NoProbe

site == <<srcDirs, srcMeta, srcMds, srcFiles, srcText, failing, theme, pageDeps,
         initFiles, unreadable>>

----------------------------------------------------------------------------
(* gather_data_from_source_tree.                                           *)

GFrame(p) == [dir |-> p, todo |-> SubDirs(srcDirs, p)]

\* the content item of directory p: its meta.json and its *.md fragments
ItemOf(p) == Item(id__(p), srcMeta[p], srcMds[p])

\* the first loop of gather_data_from_source_tree(p) ends without an exception:
\* read_meta and render_markdown are called outside any try
AlwaysReadable(p) == TRUE
Readable(p) == p \notin unreadable

\* the call gather_data_from_source_tree(SOURCE_PATH), up to its second loop
gather_root ==
    /\ pc = "start"
    /\ Readable(Root)
    /\ static_site_data' = DictSet(static_site_data, ItemOf(Root))
    /\ gstack' = <<GFrame(Root)>>
    /\ pc' = "gather"
    /\ UNCHANGED <<force_recreation, build, site, out, outDirs, dependencies,
                   next_level_dependencies, dep_i, wstack, lastRender, written,
                   raised, frontier, parsed,
                   probe, missing_resources, warnings, index_attempts>>

\* the second loop reaches sub-directory c (iterdir gives no order) and calls
\* gather_data_from_source_tree(c), which stores c's item
gather_descend ==
    /\ pc = "gather"
    /\ gstack # <<>>
    /\ LET top == gstack[Len(gstack)] IN
       \E c \in top.todo :
          /\ Readable(c)
          /\ static_site_data' = DictSet(static_site_data, ItemOf(c))
          /\ gstack' = Append([gstack EXCEPT ![Len(gstack)].todo = @ \ {c}], GFrame(c))
    /\ UNCHANGED <<force_recreation, build, site, out, outDirs, dependencies,
                   next_level_dependencies, dep_i, pc, wstack, lastRender, written,
                   raised, frontier, parsed,
                   probe, missing_resources, warnings, index_attempts>>

\* read_meta or render_markdown raises in the first loop of the call for a
\* directory (the root, or a sub-directory the second loop reaches): nothing is
\* stored for it and the exception leaves build_static_site
gather_raise ==
    /\ \/ pc = "start" /\ ~Readable(Root)
       \/ /\ pc = "gather"
          /\ gstack # <<>>
          /\ \E c \in gstack[Len(gstack)].todo : ~Readable(c)
    /\ pc' = "aborted"
    /\ UNCHANGED <<force_recreation, build, site, out, outDirs, static_site_data,
                   dependencies, next_level_dependencies, dep_i, gstack, wstack,
                   lastRender, written, raised, frontier, parsed,
                   probe, missing_resources, warnings, index_attempts>>

\* the second loop is over: the call returns
gather_return ==
    /\ pc = "gather"
    /\ gstack # <<>>
    /\ gstack[Len(gstack)].todo = {}
    /\ gstack' = SubSeq(gstack, 1, Len(gstack) - 1)
    /\ UNCHANGED <<force_recreation, build, site, out, outDirs, static_site_data,
                   dependencies, next_level_dependencies, dep_i, pc, wstack,
                   lastRender, written, raised, frontier, parsed,
                   probe, missing_resources, warnings, index_attempts>>

----------------------------------------------------------------------------
(* generate_static_site_item.                                              *)

\* a call of generate_static_site_item(p): the entries its loop has not reached
\* (meta.json and *.md are skipped by the loop and produce nothing) and the
\* css and js lists
WFrame(p, default_template_name, default_dir_listing_template_name) ==
    [dir |-> p, dirs |-> SubDirs(srcDirs, p),
     files |-> { f \in srcFiles : f.dir = p }, css |-> <<>>, js |-> <<>>,
     default_template_name |-> default_template_name,
     default_dir_listing_template_name |-> default_dir_listing_template_name]

\* the call generate_static_site_item(SOURCE_PATH, ...) of build_static_site:
\* the root's default_template and default_dir_listing_template, or the names
RootFrame(ssd) ==
    WFrame(Root,
           meta_get(MetaOf(ssd, <<".">>), <<".">>, "default_template",
                    Literal("default_template")),
           meta_get(MetaOf(ssd, <<".">>), <<".">>, "default_dir_listing_template",
                    Literal("default_dir_listing_template")))

\* the recursive call for sub-directory c of the directory of frame top
ChildFrame(ssd, top, c) ==
    WFrame(c,
           meta_get(MetaOf(ssd, id__(top.dir)), id__(top.dir), "child_template",
                    top.default_template_name),
           meta_get(MetaOf(ssd, id__(top.dir)), id__(top.dir),
                    "child_dir_listing_template",
                    top.default_dir_listing_template_name))

\* the template of the index.html of the directory of frame top
template_name(ssd, top) ==
    IF MetaOf(ssd, id__(top.dir)) # {} \/ MdsOf(ssd, id__(top.dir)) # {}
    THEN meta_get(MetaOf(ssd, id__(top.dir)), id__(top.dir), "template",
                  top.default_template_name)
    ELSE meta_get(MetaOf(ssd, id__(top.dir)), id__(top.dir), "dir_listing_template",
                  top.default_dir_listing_template_name)

\* what a render in the call of frame top is given: the item id, the children
\* view render_template builds for it, the css and js lists, the template and
\* the names inherited
RenderOf(top, name) ==
    [item_id |-> id__(top.dir),
     children |-> Children(static_site_data, id__(top.dir)),
     css |-> top.css, js |-> top.js,
     template_name |-> name,
     default_template_name |-> top.default_template_name,
     default_dir_listing_template_name |-> top.default_dir_listing_template_name]

\* the call generate_static_site_item(SOURCE_PATH) after ingestion, up to its loop
walk_root ==
    /\ pc = "gather"
    /\ gstack = <<>>
    /\ outDirs' = mkdir(outDirs, Root)
    /\ wstack' = <<RootFrame(static_site_data)>>
    /\ pc' = "walk"
    /\ UNCHANGED <<force_recreation, build, site, out, static_site_data,
                   dependencies, next_level_dependencies, dep_i, gstack,
                   lastRender, written, raised, frontier, parsed,
                   probe, missing_resources, warnings, index_attempts>>

\* the loop reaches sub-directory c: the recursive call, up to its loop
walk_descend ==
    /\ pc = "walk"
    /\ wstack # <<>>
    /\ LET top == wstack[Len(wstack)] IN
       \E c \in top.dirs :
          /\ outDirs' = mkdir(outDirs, c)
          /\ wstack' = Append([wstack EXCEPT ![Len(wstack)].dirs = @ \ {c}],
                               ChildFrame(static_site_data, top, c))
    /\ UNCHANGED <<force_recreation, build, site, out, static_site_data,
                   dependencies, next_level_dependencies, dep_i, pc, gstack,
                   lastRender, written, raised, frontier, parsed,
                   probe, missing_resources, warnings, index_attempts>>

\* the loop reaches the non-reserved file c: *.js and *.css are recorded and
\* rendered as templates of their text, every other file is read as it is
walk_file ==
    /\ pc = "walk"
    /\ wstack # <<>>
    /\ LET top == wstack[Len(wstack)] IN
       \E c \in top.files :
          LET is_binary_file == c.name.suffix \notin {".js", ".css"}
              oc == Path(top.dir, c.name)
              runs == ~Keeps(out, force_recreation, oc)
              res == IF is_binary_file THEN srcText[c]
                     ELSE IF oc \in failing THEN Raise ELSE from_string(srcText[c])
          IN  /\ out' = write_bytes(out, force_recreation, oc, res)
              /\ written' = IF Writes(out, force_recreation, oc, res)
                            THEN Count(written, oc) ELSE written
              /\ raised' = (runs /\ res = Raise)
              /\ lastRender' = IF runs /\ ~is_binary_file
                               THEN RenderOf(top, NoTemplate) ELSE lastRender
              /\ wstack' = [wstack EXCEPT
                    ![Len(wstack)].files = @ \ {c},
                    ![Len(wstack)].js = IF c.name.suffix = ".js"
                                        THEN Append(@, c.name) ELSE @,
                    ![Len(wstack)].css = IF c.name.suffix = ".css"
                                         THEN Append(@, c.name) ELSE @]
    /\ UNCHANGED <<force_recreation, build, site, outDirs, static_site_data,
                   dependencies, next_level_dependencies, dep_i, pc, gstack,
                   frontier, parsed,
                   probe, missing_resources, warnings, index_attempts>>

\* create_index_html_contents reaches its dependencies.append calls: it is the
\* producer handed to write_bytes, which has to run it, and the render before
\* the scan has to return
CollectsAlways(runs, res) == TRUE
Collects(runs, res) == runs /\ res # Raise

\* the loop is over: write_bytes(o / "index.html", create_index_html_contents),
\* whose producer renders the page and appends its references, and the return
walk_index ==
    /\ pc = "walk"
    /\ wstack # <<>>
    /\ LET top == wstack[Len(wstack)]
           o == Path(top.dir, IndexHtml)
           runs == ~Keeps(out, force_recreation, o)
           res == IF o \in failing THEN Raise ELSE "page"
       IN  /\ top.dirs = {}
           /\ top.files = {}
           /\ out' = write_bytes(out, force_recreation, o, res)
           /\ written' = IF Writes(out, force_recreation, o, res)
                         THEN Count(written, o) ELSE written
           /\ raised' = (runs /\ res = Raise)
           /\ lastRender' = IF runs
                            THEN RenderOf(top, template_name(static_site_data, top))
                            ELSE lastRender
           /\ dependencies' = IF Collects(runs, res)
                              THEN dependencies \o Scan(pageDeps)
                              ELSE dependencies
           /\ missing_resources' = IF runs /\ res # Raise
                                   THEN missing_resources \cup PageLookups(theme)
                                   ELSE missing_resources
           /\ index_attempts' = [index_attempts EXCEPT
                                     ![top.dir] = IF @ < 2 THEN @ + 1 ELSE @]
           /\ wstack' = SubSeq(wstack, 1, Len(wstack) - 1)
    /\ UNCHANGED <<force_recreation, build, site, outDirs, static_site_data,
                   next_level_dependencies, dep_i, pc, gstack,
                   frontier, parsed, probe, warnings>>

----------------------------------------------------------------------------
(* The dependency loop.                                                    *)

\* next_level_dependencies = list(set(dependencies)): a set gives no order
resolve_start ==
    /\ pc = "walk"
    /\ wstack = <<>>
    /\ next_level_dependencies' \in Perms(Range(dependencies))
    /\ dep_i' = 0
    /\ pc' = "resolve"
    /\ raised' = FALSE
    /\ UNCHANGED <<force_recreation, build, site, out, outDirs, static_site_data,
                   dependencies, gstack, wstack, lastRender, written, frontier, parsed,
                   probe, missing_resources, warnings, index_attempts>>

\* while next_level_dependencies: the frontier becomes the next level
resolve_level ==
    /\ pc = "resolve"
    /\ dep_i = 0
    /\ next_level_dependencies # <<>>
    /\ dependencies' = next_level_dependencies
    /\ next_level_dependencies' = <<>>
    /\ dep_i' = 1
    /\ raised' = FALSE
    /\ frontier' = frontier \cup Range(next_level_dependencies)
    /\ UNCHANGED <<force_recreation, build, site, out, outDirs, static_site_data,
                   pc, gstack, wstack, lastRender, written, parsed, probe, missing_resources, warnings, index_attempts>>

\* the while loop ends with an empty next level: the build returns
resolve_done ==
    /\ pc = "resolve"
    /\ dep_i = 0
    /\ next_level_dependencies = <<>>
    /\ pc' = "done"
    /\ raised' = FALSE
    /\ UNCHANGED <<force_recreation, build, site, out, outDirs, static_site_data,
                   dependencies, next_level_dependencies, dep_i, gstack, wstack,
                   lastRender, written, frontier, parsed,
                   probe, missing_resources, warnings, index_attempts>>

\* the for loop is at a dependency
AtDep == pc = "resolve" /\ dep_i \in 1..Len(dependencies)
Dep == dependencies[dep_i]

\* if not force_recreation and o.exists(): the output is kept
IsKept(dep) == ~force_recreation /\ out[dep] # Absent

\* "Keeping existing": nothing is read, nothing is enqueued
resolve_keep ==
    /\ AtDep
    /\ IsKept(Dep)
    /\ dep_i' = dep_i + 1
    /\ raised' = FALSE
    /\ UNCHANGED <<force_recreation, build, site, out, outDirs, static_site_data,
                   dependencies, next_level_dependencies, pc, gstack, wstack,
                   lastRender, written, frontier, parsed,
                   probe, missing_resources, warnings, index_attempts>>

\* read_bytes is None: the dependency is missing from the theme, continue
resolve_missing ==
    /\ AtDep
    /\ ~IsKept(Dep)
    /\ Reader(theme, Dep) = None
    /\ dep_i' = dep_i + 1
    /\ raised' = FALSE
    /\ UNCHANGED <<force_recreation, build, site, out, outDirs, static_site_data,
                   dependencies, next_level_dependencies, pc, gstack, wstack,
                   lastRender, written, frontier, parsed,
                   probe, missing_resources, warnings, index_attempts>>

\* the url(...) references of the stylesheet the reader of dep returns
CssUrls(dep) ==
    IF Reader(theme, dep) = "theme" THEN theme[dep].urls
    ELSE SynthUrls(theme, with_suffix(dep, ".json"))

\* css_contents = read_bytes() raises when the reader is the font synthesis and
\* no @font-face rule can be produced
ReadRaises(dep) ==
    Reader(theme, dep) = "synth" /\ SynthUrls(theme, with_suffix(dep, ".json")) = {}

\* a .css dependency: it is read, its font references join the next level
\* (a set gives them no order), and write_bytes is given the bytes read
resolve_css ==
    /\ AtDep
    /\ ~IsKept(Dep)
    /\ Reader(theme, Dep) # None
    /\ Dep.name.suffix = ".css"
    /\ ~ReadRaises(Dep)
    /\ \E refs \in Perms(get_referenced_font_paths(Dep, CssUrls(Dep))) :
          next_level_dependencies' = next_level_dependencies \o refs
    /\ outDirs' = mkdir(outDirs, Dep.dir)
    /\ out' = write_bytes(out, force_recreation, Dep, Reader(theme, Dep))
    /\ written' = IF Writes(out, force_recreation, Dep, Reader(theme, Dep))
                  THEN Count(written, Dep) ELSE written
    /\ dep_i' = dep_i + 1
    /\ raised' = FALSE
    /\ parsed' = parsed \cup {Dep}
    /\ UNCHANGED <<force_recreation, build, site, static_site_data, dependencies,
                   pc, gstack, wstack, lastRender, frontier, probe, missing_resources, warnings, index_attempts>>

\* a .css dependency whose read raises: the call is outside write_bytes and
\* outside any try, the exception leaves build_static_site
resolve_css_raise ==
    /\ AtDep
    /\ ~IsKept(Dep)
    /\ Reader(theme, Dep) # None
    /\ Dep.name.suffix = ".css"
    /\ ReadRaises(Dep)
    /\ pc' = "aborted"
    /\ raised' = TRUE
    /\ UNCHANGED <<force_recreation, build, site, out, outDirs, static_site_data,
                   dependencies, next_level_dependencies, dep_i, gstack, wstack,
                   lastRender, written, frontier, parsed,
                   probe, missing_resources, warnings, index_attempts>>

\* any other dependency: write_bytes(o, d.read_bytes)
resolve_file ==
    /\ AtDep
    /\ ~IsKept(Dep)
    /\ Reader(theme, Dep) # None
    /\ Dep.name.suffix # ".css"
    /\ outDirs' = mkdir(outDirs, Dep.dir)
    /\ out' = write_bytes(out, force_recreation, Dep, Reader(theme, Dep))
    /\ written' = IF Writes(out, force_recreation, Dep, Reader(theme, Dep))
                  THEN Count(written, Dep) ELSE written
    /\ dep_i' = dep_i + 1
    /\ raised' = FALSE
    /\ UNCHANGED <<force_recreation, build, site, static_site_data, dependencies,
                   next_level_dependencies, pc, gstack, wstack, lastRender,
                   frontier, parsed,
                   probe, missing_resources, warnings, index_attempts>>

\* the for loop is over: the missing theme resources are reported, and the
\* while loop tests the next level
resolve_report ==
    /\ pc = "resolve"
    /\ dep_i = Len(dependencies) + 1
    /\ dep_i' = 0
    /\ raised' = FALSE
    /\ warnings' = [r \in LookupNames |->
                       IF r \in missing_resources /\ warnings[r] < 2
                       THEN warnings[r] + 1 ELSE warnings[r]]
    /\ UNCHANGED <<force_recreation, build, site, out, outDirs, static_site_data,
                   dependencies, next_level_dependencies, pc, gstack, wstack,
                   lastRender, written, frontier, parsed, probe,
                   missing_resources, index_attempts>>

\* build_static_site is called again on the same source, theme and output
rebuild ==
    /\ pc = "done"
    /\ build < MaxBuilds
    /\ build' = build + 1
    /\ force_recreation' \in BOOLEAN
    /\ static_site_data' = <<>>
    /\ dependencies' = <<>>
    /\ next_level_dependencies' = <<>>
    /\ dep_i' = 0
    /\ pc' = "start"
    /\ lastRender' = NoRender
    /\ written' = [p \in OutPaths |-> 0]
    /\ raised' = FALSE
    /\ frontier' = {}
    /\ parsed' = {}
    /\ missing_resources' = {}
    /\ warnings' = [r \in LookupNames |-> 0]
    /\ index_attempts' = [d \in srcDirs |-> 0]
    /\ UNCHANGED <<site, out, outDirs, gstack, wstack, probe>>

----------------------------------------------------------------------------
(* The specifications.                                                     *)

\* the source tree of the full builds: the root and one sub-directory a, each
\* with a meta.json, and one image in the root
ExampleTree == { Root, << <<"a">> >> }
ExampleFiles == { Path(Root, File("x", ".png")) }

\* the pages an earlier build of the example tree left
ExamplePages == { Path(d, IndexHtml) : d \in ExampleTree }

\* full builds of the example tree, over every theme and every set of page
\* references, into an output directory that holds at most MaxInitFiles files
\* or the pages of an earlier build
Init ==
    BuildInit({ExampleTree}, {ExampleFiles}, {"src"}, {{"title"}}, {{}}, 0, Themes,
              { StyleLinks(S) : S \in SUBSET CssPaths },
              Small(CssPaths \cup { Path(ThemeDir, FontName), Path(Root, IndexHtml) },
                    MaxInitFiles) \cup {ExamplePages})

Next ==
    \/ gather_root
    \/ gather_descend
    \/ gather_raise
    \/ gather_return
    \/ walk_root
    \/ walk_descend
    \/ walk_file
    \/ walk_index
    \/ resolve_start
    \/ resolve_level
    \/ resolve_done
    \/ resolve_keep
    \/ resolve_missing
    \/ resolve_css
    \/ resolve_css_raise
    \/ resolve_file
    \/ resolve_report
    \/ rebuild

Spec == Init /\ [][Next]_vars

\* the builds run to their end: a step that can be taken is taken
FairSpec == Spec /\ WF_vars(Next)

\* the themes of the builds whose pages reference "/../t.css": a/t.css, its
\* font and its description as in Themes, and a file t.css next to the theme
\* directory or none
EscThemes ==
    { [p \in ThemePaths \cup {EscPath} |-> IF p = EscPath THEN e ELSE th[p]] :
        th \in { t \in Themes : t[Path(ThemeDir, File("u", ".css"))] = NoFile },
        e \in {NoFile, PlainFile} }

\* full builds of the example tree into an empty output directory, with pages
\* that reference "/a/t.css", "/../t.css", both or nothing
EscapeInit ==
    BuildInit({ExampleTree}, {ExampleFiles}, {"src"}, {{"title"}}, {{}}, 0, EscThemes,
              { StyleLinks(S) : S \in SUBSET {EscPath, Path(ThemeDir, File("t", ".css"))} },
              {{}})

EscapeSpec == EscapeInit /\ [][Next]_vars

\* ingestion and walk of every source tree of at most MaxDirs directories, with
\* at most one non-reserved file in the root and at most one failing render,
\* under a theme without assets
TreeInit ==
    BuildInit(Trees(MaxDirs), Small({ Path(Root, n) : n \in SrcFileNames }, 1),
              SrcTexts,
              {{"title"}}, {{}}, 1, {[p \in ThemePaths |-> NoFile]}, {{}},
              Small({ Path(Root, IndexHtml), Path(Root, File("s", ".css")),
                      Path(Root, File("x", ".png")) }, MaxInitFiles))

TreeNext ==
    \/ gather_root
    \/ gather_descend
    \/ gather_raise
    \/ gather_return
    \/ walk_root
    \/ walk_descend
    \/ walk_file
    \/ walk_index

TreeSpec == TreeInit /\ [][TreeNext]_vars

\* the elements of the pages scanned: a stylesheet link in the head and one in
\* the body, a script in the head and one in the body, an image in the body
\* whose src does not start with "/", and a link in the head that is no
\* stylesheet
PageElements ==
    { Element("link", "head", "stylesheet", "href", TRUE, Path(ThemeDir, File("t", ".css"))),
      Element("link", "body", "stylesheet", "href", TRUE, Path(ThemeDir, File("u", ".css"))),
      Element("script", "head", "", "src", TRUE, Path(ThemeDir, File("h", ".js"))),
      Element("script", "body", "", "src", TRUE, Path(ThemeDir, File("b", ".js"))),
      Element("img", "body", "", "src", FALSE, Path(ThemeDir, File("x", ".png"))),
      Element("link", "head", "icon", "href", TRUE, Path(ThemeDir, File("i", ".ico"))) }

\* ingestion and walk of the example tree into an empty output directory, the
\* rendered pages holding any of the elements
PageInit ==
    BuildInit({ExampleTree}, {ExampleFiles}, {"src"}, {{"title"}}, {{}}, 0,
              {[p \in ThemePaths |-> NoFile]}, SUBSET PageElements, {{}})

PageSpec == PageInit /\ [][TreeNext]_vars

\* the keys of a meta.json that select templates
TemplateKeys ==
    { "template", "dir_listing_template", "child_template",
      "child_dir_listing_template", "default_template",
      "default_dir_listing_template" }

\* a chain of two sub-directories, and two sibling sub-directories
TemplateTrees ==
    { { Root, << <<"a">> >>, << <<"a">>, <<"a">> >> },
      { Root, << <<"a">> >>, << <<"a", "b">> >> } }

\* ingestion and walk of the two trees, with one image in the root, into an
\* empty output directory; every directory has no meta.json, a title or one
\* of the template keys, and one fragment or none
TemplateInit ==
    BuildInit(TemplateTrees, {ExampleFiles}, {"src"}, {{}, {"title"}} \cup { {k} : k \in TemplateKeys },
              {{}, {"m"}}, 0, {[p \in ThemePaths |-> NoFile]}, {{}}, {{}})

TemplateSpec == TemplateInit /\ [][TreeNext]_vars

\* one direct call of write_bytes or of a helper: the content graph is that of
\* the example tree, ingested; the output directory holds any files
UnitPaths == { Path(Root, IndexHtml), Path(Root, File("x", ".png")),
               Path(ThemeDir, File("t", ".css")) }

UnitInit ==
    /\ force_recreation \in BOOLEAN
    /\ build = 1
    /\ srcDirs = ExampleTree
    /\ srcMeta \in [srcDirs -> {{"title"}, {"title", "author"}}]
    /\ srcMds = [d \in srcDirs |-> {}]
    /\ srcFiles = ExampleFiles
    /\ srcText = [f \in srcFiles |-> "src"]
    /\ failing = {}
    /\ theme \in { th \in Themes : \A p \in ThemePaths :
                       p.name # File("t", ".css") => th[p] = NoFile }
    /\ pageDeps = {}
    /\ initFiles \in SUBSET UnitPaths
    /\ unreadable = {}
    /\ out = InitOut(initFiles)
    /\ outDirs = {Root, ThemeDir}
    /\ static_site_data = <<ItemOf(Root), ItemOf(<< <<"a">> >>)>>
    /\ dependencies = <<>>
    /\ next_level_dependencies = <<>>
    /\ dep_i = 0
    /\ pc = "walk"
    /\ gstack = <<>>
    /\ wstack = <<RootFrame(static_site_data)>>
    /\ lastRender = NoRender
    /\ written = [p \in OutPaths |-> 0]
    /\ raised = FALSE
    /\ frontier = {}
    /\ parsed = {}
    /\ missing_resources = {}
    /\ warnings = [r \in LookupNames |-> 0]
    /\ index_attempts = [d \in srcDirs |-> 0]
    /\ probe = NoProbe

\* write_bytes(path, get_bytes) with a producer that returns content, returns
\* None or raises
call_write_bytes ==
    /\ probe.fn = ""
    /\ \E path \in UnitPaths, get_bytes \in {"tpl", "page", None, Raise} :
          /\ out' = write_bytes(out, force_recreation, path, get_bytes)
          /\ written' = IF Writes(out, force_recreation, path, get_bytes)
                        THEN Count(written, path) ELSE written
          /\ raised' = (~Keeps(out, force_recreation, path) /\ get_bytes = Raise)
          /\ probe' = [NoProbe EXCEPT !.fn = "write_bytes", !.path = path,
                           !.get_bytes = get_bytes, !.pre = out[path],
                           !.ran = ~Keeps(out, force_recreation, path)]
    /\ UNCHANGED <<force_recreation, build, site, outDirs, static_site_data,
                   dependencies, next_level_dependencies, dep_i, pc, gstack,
                   wstack, lastRender,
                   frontier, parsed,
                   missing_resources, warnings, index_attempts>>

\* a template calls utility_funcs[name](arg)
call_utility ==
    /\ probe.fn = ""
    /\ \E name \in utility_funcs, arg \in Args :
          /\ probe' = [NoProbe EXCEPT !.fn = name, !.arg = arg,
                          !.raw = Helper(name, static_site_data, theme, arg),
                          !.res = shield(Helper(name, static_site_data, theme, arg)),
                          !.ran = TRUE]
          /\ missing_resources' =
                IF name = "get_theme_resource"
                THEN missing_resources \cup get_theme_resource_missing(theme, arg)
                ELSE missing_resources
    /\ UNCHANGED <<force_recreation, build, site, out, outDirs, static_site_data,
                   dependencies, next_level_dependencies, dep_i, pc, gstack,
                   wstack, lastRender, written, raised,
                   frontier, parsed, warnings, index_attempts>>

\* the candidates of the calls of get_theme_resource: a name, lists of names,
\* the empty list and None
Candidates ==
    { Str(<<"t", ".css">>), Str(<<"z">>), NoneVal, Val("list", <<>>),
      Val("list", <<Str(<<"z">>), Str(<<"t", ".css">>)>>),
      Val("list", <<Str(<<"t", ".css">>), Str(<<"z">>)>>),
      Val("list", <<Str(<<"p">>), Str(<<"q">>)>>) }

\* a template calls get_theme_resource(names, default)
call_get_theme_resource ==
    /\ probe.fn = ""
    /\ \E names \in Candidates, default \in {NoneVal, Str(<<"t", ".css">>), Str(<<"z">>)} :
          /\ probe' = [NoProbe EXCEPT !.fn = "get_theme_resource(names, default)",
                          !.arg = Val("args", <<names, default>>),
                          !.raw = get_theme_resource_or(theme, names, default),
                          !.res = shield(get_theme_resource_or(theme, names, default)),
                          !.ran = TRUE]
          /\ missing_resources' =
                missing_resources \cup get_theme_resource_missing(theme, names)
    /\ UNCHANGED <<force_recreation, build, site, out, outDirs, static_site_data,
                   dependencies, next_level_dependencies, dep_i, pc, gstack,
                   wstack, lastRender, written, raised,
                   frontier, parsed, warnings, index_attempts>>

UnitNext == call_write_bytes \/ call_utility \/ call_get_theme_resource

UnitSpec == UnitInit /\ [][UnitNext]_vars

----------------------------------------------------------------------------
(* The calendar conversions of jdatetime.py. Both return a pair of a date   *)
(* triple and a day count; the operators give the date triple.              *)

g_d_m == <<0, 31, 59, 90, 120, 151, 181, 212, 243, 273, 304, 334>>

gregorian_to_jalali(gy, gm, gd) ==
    LET gy2 == IF gm > 2 THEN gy + 1 ELSE gy
        days0 == 355666 + (365 * gy) + ((gy2 + 3) \div 4) - ((gy2 + 99) \div 100)
                    + ((gy2 + 399) \div 400) + gd + g_d_m[gm]
        jy1 == -1595 + (33 * (days0 \div 12053))
        days1 == days0 % 12053
        jy2 == jy1 + 4 * (days1 \div 1461)
        days2 == days1 % 1461
        jy == IF days2 > 365 THEN jy2 + ((days2 - 1) \div 365) ELSE jy2
        days == IF days2 > 365 THEN (days2 - 1) % 365 ELSE days2
    IN  IF days < 186
        THEN <<jy, 1 + (days \div 31), 1 + (days % 31)>>
        ELSE <<jy, 7 + ((days - 186) \div 30), 1 + ((days - 186) % 30)>>

\* a February of 29 days in every fourth year
kab_julian(gy) == IF gy % 4 = 0 THEN 29 ELSE 28

\* the length of February in jalali_to_gregorian
kab(gy) == IF (gy % 4 = 0 /\ gy % 100 # 0) \/ (gy % 400 = 0) THEN 29 ELSE 28

\* sal_a[gm], the list indexed from 0
sal_a(gy, gm) == <<0, 31, kab(gy), 31, 30, 31, 30, 31, 31, 30, 31, 30, 31>>[gm + 1]

\* while gm < 13 and gd > sal_a[gm]: gd -= sal_a[gm]; gm += 1
RECURSIVE month_loop(_, _, _)
month_loop(gy, gm, gd) ==
    IF gm < 13 /\ gd > sal_a(gy, gm)
    THEN month_loop(gy, gm + 1, gd - sal_a(gy, gm))
    ELSE <<gy, gm, gd>>

jalali_to_gregorian(jy0, jm, jd) ==
    LET jy == jy0 + 1595
        days0 == -355668 + (365 * jy) + ((jy \div 33) * 8) + (((jy % 33) + 3) \div 4) + jd
                    + (IF jm < 7 THEN (jm - 1) * 31 ELSE ((jm - 7) * 30) + 186)
        gy1 == 400 * (days0 \div 146097)
        days1 == days0 % 146097
        big == days1 > 36524
        gy2 == IF big THEN gy1 + 100 * ((days1 - 1) \div 36524) ELSE gy1
        days2 == IF big
                 THEN LET r == (days1 - 1) % 36524 IN IF r >= 365 THEN r + 1 ELSE r
                 ELSE days1
        gy3 == gy2 + 4 * (days2 \div 1461)
        days3 == days2 % 1461
        gy == IF days3 > 365 THEN gy3 + ((days3 - 1) \div 365) ELSE gy3
        days == IF days3 > 365 THEN (days3 - 1) % 365 ELSE days3
    IN  month_loop(gy, 0, days + 1)

\* the Gregorian calendar of datetime: the days of month m of year y
DaysInMonth(y, m) ==
    IF m = 2
    THEN (IF (y % 4 = 0 /\ y % 100 # 0) \/ y % 400 = 0 THEN 29 ELSE 28)
    ELSE IF m \in {4, 6, 9, 11} THEN 30 ELSE 31

\* the years whose dates are converted: MaxYears years from 1999 on, and the
\* century year 2100
Years == (1999..(1998 + MaxYears)) \cup {2100}

ValidDates ==
    { ymd \in Years \X (1..12) \X (1..31) : ymd[3] <= DaysInMonth(ymd[1], ymd[2]) }

----------------------------------------------------------------------------
(* read_meta. A date string is its text before the calendar suffix, split   *)
(* at "-" into parts of characters, and the suffix.                         *)

DateStr(parts, suffix) == [kind |-> "str", val |-> parts, suffix |-> suffix]

DigitChars == <<"0", "1", "2", "3", "4", "5", "6", "7", "8", "9">>

IsDigits(part) == \A i \in DOMAIN part : part[i] \in Range(DigitChars)

\* int(part)
RECURSIVE ToInt(_)
ToInt(part) ==
    IF part = <<>> THEN 0
    ELSE 10 * ToInt(SubSeq(part, 1, Len(part) - 1))
            + ((CHOOSE i \in DOMAIN DigitChars : DigitChars[i] = part[Len(part)]) - 1)

\* re.match(r"^(\d\d(\d\d)?)-(\d\d?)-(\d\d?)(T.*)?$", vv)
MatchesShc(parts) ==
    /\ Len(parts) = 3
    /\ \A i \in 1..3 : IsDigits(parts[i])
    /\ Len(parts[1]) \in {2, 4}
    /\ Len(parts[2]) \in {1, 2}
    /\ Len(parts[3]) \in {1, 2}

\* datetime.fromisoformat of a date YYYY-MM-DD given as its parts: the date,
\* or ValueError
fromisoformat(parts) ==
    IF /\ Len(parts) = 3
       /\ \A i \in 1..3 : IsDigits(parts[i])
       /\ Len(parts[1]) = 4 /\ Len(parts[2]) = 2 /\ Len(parts[3]) = 2
       /\ ToInt(parts[1]) >= 1
       /\ ToInt(parts[2]) \in 1..12
       /\ ToInt(parts[3]) \in 1..DaysInMonth(ToInt(parts[1]), ToInt(parts[2]))
    THEN Val("datetime", <<ToInt(parts[1]), ToInt(parts[2]), ToInt(parts[3])>>)
    ELSE RaiseVal

\* datetime.fromisoformat(f"{y}-{m:02}-{d:02}"): the year is not padded
fromisoformat_ymd(ymd) ==
    IF /\ ymd[1] \in 1000..9999
       /\ ymd[2] \in 1..12
       /\ ymd[3] \in 1..DaysInMonth(ymd[1], ymd[2])
    THEN Val("datetime", ymd)
    ELSE RaiseVal

EndsWithDate(k) == k # <<>> /\ k[Len(k)] = "date"

\* read_meta.normalize
normalize(k, v) ==
    IF EndsWithDate(k)
    THEN IF v.suffix \in {"SHC", "JC"}
         THEN IF ~MatchesShc(v.val) THEN NoneVal
              ELSE LET y == ToInt(v.val[1]) + (IF Len(v.val[1]) = 2 THEN 1400 ELSE 0)
                   IN  fromisoformat_ymd(
                           jalali_to_gregorian(y, ToInt(v.val[2]), ToInt(v.val[3])))
         ELSE fromisoformat(v.val)
    ELSE v

\* read_meta: the normalized mapping, or the exception of a normalize call
read_meta(meta) ==
    IF \E k \in DOMAIN meta : normalize(k, meta[k]).kind = "raise"
    THEN RaiseVal
    ELSE Val("dict", [k \in DOMAIN meta |-> normalize(k, meta[k])])

\* the date texts of the meta.json files read: ISO and Solar Hijri dates,
\* dates with a month 13, and text that is no date
DateBodies ==
    { << <<"2","0","2","4">>, <<"0","1">>, <<"0","5">> >>,
      << <<"1","4","0","2">>, <<"0","7">>, <<"1","5">> >>,
      << <<"0","2">>, <<"7">>, <<"1","5">> >>,
      << <<"1","4","0","2">>, <<"1","3">>, <<"4","5">> >>,
      << <<"x","x">> >>,
      << <<"2","0","2","4">>, <<"1">> >> }

DateStrs == { DateStr(b, sfx) : b \in DateBodies, sfx \in {"", "SHC", "JC"} }

\* the meta.json objects read: a title and one more key
Metas ==
    UNION { [{<<"title">>, k} -> DateStrs] :
              k \in { <<"date">>, <<"pub", "date">>, <<"date", "d">> } }

----------------------------------------------------------------------------
(* The fenced math block of mdex.py. A line is a sequence of characters      *)
(* without its line end; "label" and "E=mc^2" stand for one character each.  *)

Newline == "\n"

\* the length of the run of c at the start of s
RunOf(s, c) ==
    CHOOSE k \in 0..Len(s) :
        /\ \A i \in 1..k : s[i] = c
        /\ k < Len(s) => s[k + 1] # c

Drop(s, n) == SubSeq(s, n + 1, Len(s))

\* str.strip
RECURSIVE Strip(_)
Strip(s) ==
    IF s # <<>> /\ s[1] = " " THEN Strip(Drop(s, 1))
    ELSE IF s # <<>> /\ s[Len(s)] = " " THEN Strip(SubSeq(s, 1, Len(s) - 1))
    ELSE s

\* reMathFence = ^\${3,}(?!.*\$): the length of the match, 0 without one
reMathFence(s) ==
    LET n == RunOf(s, "$")
    IN  IF n >= 3 /\ \A i \in (n + 1)..Len(s) : s[i] # "$" THEN n ELSE 0

\* reClosingMathFence = ^(?:\${3,})(?= *$): the length of the match, 0 without
reClosingMathFence(s) ==
    LET n == RunOf(s, "$")
    IN  IF n >= 3 /\ \A i \in (n + 1)..Len(s) : s[i] = " " THEN n ELSE 0

NoBlock == [open |-> FALSE, fence_length |-> 0, fence_offset |-> 0, start |-> 0,
            string_content |-> <<>>]

\* the whole current line joins the string_content
add_whole_line(ln, offset) == ln \o <<Newline>>

\* Parser.add_line: the rest of the current line and a line end join the
\* string_content of the tip, a block with accepts_lines
add_line(ln, offset) == Drop(ln, offset) \o <<Newline>>

\* BlockStartsEx.fenced_math_block on line i: the block opened, which then
\* receives the rest of the line as every block with accepts_lines does
fenced_math_block(ln, i) ==
    LET ns == RunOf(ln, " ")
        fence_length == reMathFence(Drop(ln, ns))
    IN  [open |-> TRUE, fence_length |-> fence_length, fence_offset |-> ns,
         start |-> i, string_content |-> add_line(ln, ns + fence_length)]

\* any fence of three or more closes the block
IsAnyFence(block, ln) ==
    RunOf(ln, " ") <= 3 /\ reClosingMathFence(Drop(ln, RunOf(ln, " "))) > 0

\* MathBlock.continue_ finds the closing fence in ln
IsClosingFence(block, ln) ==
    LET ns == RunOf(ln, " ")
    IN  /\ ns <= 3
        /\ Len(ln) >= ns + 1
        /\ ln[ns + 1] = "$"
        /\ reClosingMathFence(Drop(ln, ns)) >= block.fence_length
        /\ reClosingMathFence(Drop(ln, ns)) > 0

\* MathBlock.continue_ without a closing fence: up to fence_offset spaces are
\* skipped, and the line is added
continue_(block, ln) ==
    LET ns == RunOf(ln, " ")
        skip == IF ns < block.fence_offset THEN ns ELSE block.fence_offset
    IN  [block EXCEPT !.string_content = @ \o add_line(ln, skip)]

\* MathBlock.finalize of a block closed at line end: the first line of the
\* content becomes the info string, the rest the literal
finalize(block, end) ==
    LET content == block.string_content
        newline_pos == CHOOSE k \in DOMAIN content :
                           content[k] = Newline /\ \A j \in 1..(k - 1) : content[j] # Newline
    IN  [info |-> Strip(SubSeq(content, 1, newline_pos - 1)),
         literal |-> Drop(content, newline_pos),
         start |-> block.start, end |-> end, fence_length |-> block.fence_length]

\* Parser.parse, as far as math blocks go: the math blocks of the document,
\* from line i on, with the open math block tip and the blocks closed so far
RECURSIVE parse(_, _, _, _)
parse(lines, i, tip, blocks) ==
    IF i > Len(lines)
    THEN IF tip.open THEN Append(blocks, finalize(tip, i)) ELSE blocks
    ELSE IF tip.open
    THEN IF IsClosingFence(tip, lines[i])
         THEN parse(lines, i + 1, NoBlock, Append(blocks, finalize(tip, i)))
         ELSE parse(lines, i + 1, continue_(tip, lines[i]), blocks)
    ELSE IF RunOf(lines[i], " ") < 4 /\ reMathFence(Drop(lines[i], RunOf(lines[i], " "))) > 0
    THEN parse(lines, i + 1, fenced_math_block(lines[i], i), blocks)
    ELSE parse(lines, i + 1, tip, blocks)

\* the lines of the texts parsed: fences of three and four, a fence followed
\* by a label, a fence indented by one space and by four, text, indented text
\* and the empty line
MdLines ==
    { <<"$", "$", "$">>, <<"$", "$", "$", "$">>, <<"$", "$", "$", " ", "label">>,
      <<" ", "$", "$", "$">>, <<" ", " ", " ", " ", "$", "$", "$">>,
      <<"label">>, <<" ", "label">>, <<"E=mc^2">>, <<>> }

MdTexts == UNION { [1..n -> MdLines] : n \in 0..MaxLines }

----------------------------------------------------------------------------
(* The font stylesheet synthesis (get_font_css_content_reader). A dict is   *)
(* the sequence of its <<key, value>> pairs in insertion order; a file name *)
(* is the sequence of its parts, "f.woff" being <<"f", ".", "woff">>.       *)

DictHas(d, k) == \E i \in DOMAIN d : d[i][1] = k

\* d.get(k, default)
DictGetOr(d, k, default) ==
    IF DictHas(d, k) THEN d[CHOOSE i \in DOMAIN d : d[i][1] = k][2] ELSE default

\* d[k] = v: a new key goes last, an existing key keeps its place
DictPut(d, k, v) ==
    IF DictHas(d, k)
    THEN [i \in DOMAIN d |-> IF d[i][1] = k THEN <<k, v>> ELSE d[i]]
    ELSE Append(d, <<k, v>>)

\* {**d, **e}
RECURSIVE DictMerge(_, _)
DictMerge(d, e) ==
    IF e = <<>> THEN d ELSE DictMerge(DictPut(d, e[1][1], e[1][2]), Tail(e))

\* the suffixes get_fontface_def tries, each with its format
FontSuffixes ==
    << [suffix |-> <<".", "woff2">>, type__ |-> "woff2"],
       [suffix |-> <<".", "woff">>, type__ |-> "woff"],
       [suffix |-> <<".", "ttf">>, type__ |-> "truetype"],
       [suffix |-> <<"otf">>, type__ |-> "opentype"] >>

NoRule == [rule |-> FALSE, file |-> "", decls |-> <<>>]

\* get_fontface_def(parent, file, keys, common), siblings being the names of
\* the files of parent: the rule of one file stem, or None
get_fontface_def(siblings, file, keys, common) ==
    LET font_family == DictGetOr(keys, "font-family",
                                 DictGetOr(common, "font-family", ""))
        found == SelectSeq(FontSuffixes, LAMBDA x : (<<file>> \o x.suffix) \in siblings)
        src_items == <<[fn |-> "local", arg |-> <<font_family>>, format |-> ""]>>
                       \o [i \in DOMAIN found |->
                              [fn |-> "url", arg |-> <<file>> \o found[i].suffix,
                               format |-> found[i].type__]]
    IN  IF font_family = "" THEN NoRule
        ELSE IF Len(src_items) < 2 THEN NoRule
        ELSE [rule |-> TRUE, file |-> file,
              decls |-> DictPut(DictMerge(common, keys), "src", src_items)]

\* read_bytes of get_font_css_content_reader: the rules of the stylesheet, in
\* the order of description["files"]; ValueError without a rule
font_css(siblings, description) ==
    LET defs == [i \in DOMAIN description.files |->
                    get_fontface_def(siblings, description.files[i][1],
                                     description.files[i][2], description.common)]
        lines == SelectSeq(defs, LAMBDA r : r.rule)
    IN  IF lines = <<>> THEN RaiseVal ELSE Val("css", lines)

\* the common properties of the descriptions: none, a font-family, a
\* font-weight, both, and a src of their own before the font-family
Commons ==
    { <<>>, << <<"font-family", "F">> >>, << <<"font-weight", "400">> >>,
      << <<"font-family", "F">>, <<"font-weight", "400">> >>,
      << <<"src", "s">>, <<"font-family", "F">> >> }

\* the overrides of a file stem
Overrides == { <<>>, << <<"font-family", "G">> >>, << <<"font-weight", "700">> >> }

\* the descriptions: the stems f and g, either, both or none
Descriptions ==
    { [common |-> c, files |-> fs] :
        c \in Commons,
        fs \in {<<>>} \cup { << <<st, o>> >> : st \in {"f", "g"}, o \in Overrides }
                \cup { << <<"f", o>>, <<"g", q>> >> : o \in Overrides, q \in Overrides } }

\* the files next to the description
SiblingNames ==
    { <<"f", ".", "woff2">>, <<"f", ".", "ttf">>, <<"f", ".", "otf">>, <<"f", "otf">>,
      <<"g", ".", "woff">> }

----------------------------------------------------------------------------
(* Direct calls of the pure functions.                                     *)

\* the state before one call of a pure function: no build is running
PureInit ==
    BuildInit({ExampleTree}, {ExampleFiles}, {"src"}, {{"title"}}, {{}}, 0,
              {[p \in ThemePaths |-> NoFile]}, {{}}, {{}})
    /\ ~force_recreation
    /\ unreadable = {}

\* jalali_to_gregorian(*gregorian_to_jalali(y, m, d)[0]) for a Gregorian date
call_jalali ==
    /\ probe.fn = ""
    /\ \E ymd \in ValidDates :
          LET j == gregorian_to_jalali(ymd[1], ymd[2], ymd[3]) IN
          probe' = [NoProbe EXCEPT !.fn = "gregorian_to_jalali",
                       !.arg = Val("date", ymd), !.raw = Val("date", j),
                       !.res = Val("date", jalali_to_gregorian(j[1], j[2], j[3])),
                       !.ran = TRUE]
    /\ UNCHANGED <<force_recreation, build, site, out, outDirs, static_site_data,
                   dependencies, next_level_dependencies, dep_i, pc, gstack,
                   wstack, lastRender, written, raised, frontier, parsed,
                   missing_resources, warnings, index_attempts>>

\* read_meta(path) of a meta.json file holding the object meta
call_read_meta ==
    /\ probe.fn = ""
    /\ \E meta \in Metas :
          probe' = [NoProbe EXCEPT !.fn = "read_meta", !.arg = Val("dict", meta),
                       !.raw = read_meta(meta), !.res = read_meta(meta), !.ran = TRUE]
    /\ UNCHANGED <<force_recreation, build, site, out, outDirs, static_site_data,
                   dependencies, next_level_dependencies, dep_i, pc, gstack,
                   wstack, lastRender, written, raised, frontier, parsed,
                   missing_resources, warnings, index_attempts>>

\* what an entry of a sorted list holds besides its name: a mapping without
\* a date, with a null date or with a date, an object with a date attribute, a
\* (meta, mds) pair whose second mapping is dated
Inners ==
    { Val("dict", <<>>), Dated("obj", MaxDate),
      Val("tuple", <<Val("dict", <<>>), Dated("dict", 2)>>) }
        \cup { Dated("dict", d) : d \in 0..MaxDate }

\* the i-th entry of a list: a (name, inner) pair, as the items() of a mapping
Entry(i, inner) == Val("tuple", <<Str(<< <<"p", "q", "r", "s">>[i] >>), inner>>)

\* the lists of at most MaxItems entries
ItemLists ==
    UNION { { [i \in 1..n |-> Entry(i, f[i])] : f \in [1..n -> Inners] } : n \in 0..MaxItems }

\* a template calls sort_by_date(items)
call_sort_by_date ==
    /\ probe.fn = ""
    /\ \E items \in ItemLists :
          probe' = [NoProbe EXCEPT !.fn = "sort_by_date", !.arg = Val("list", items),
                       !.raw = sort_by_date(Val("list", items)),
                       !.res = shield(sort_by_date(Val("list", items))),
                       !.ran = TRUE]
    /\ UNCHANGED <<force_recreation, build, site, out, outDirs, static_site_data,
                   dependencies, next_level_dependencies, dep_i, pc, gstack,
                   wstack, lastRender, written, raised, frontier, parsed,
                   missing_resources, warnings, index_attempts>>

\* render_markdown parses a text
call_parse ==
    /\ probe.fn = ""
    /\ \E lines \in MdTexts :
          probe' = [NoProbe EXCEPT !.fn = "parse", !.arg = Val("lines", lines),
                       !.raw = Val("blocks", parse(lines, 1, NoBlock, <<>>)),
                       !.res = Val("blocks", parse(lines, 1, NoBlock, <<>>)),
                       !.ran = TRUE]
    /\ UNCHANGED <<force_recreation, build, site, out, outDirs, static_site_data,
                   dependencies, next_level_dependencies, dep_i, pc, gstack,
                   wstack, lastRender, written, raised, frontier, parsed,
                   missing_resources, warnings, index_attempts>>

\* the resolver reads the stylesheet of a font description
call_font_css ==
    /\ probe.fn = ""
    /\ \E description \in Descriptions, siblings \in SUBSET SiblingNames :
          probe' = [NoProbe EXCEPT !.fn = "font_css",
                       !.arg = Val("json", [description |-> description,
                                            siblings |-> siblings]),
                       !.raw = font_css(siblings, description),
                       !.res = font_css(siblings, description),
                       !.ran = TRUE]
    /\ UNCHANGED <<force_recreation, build, site, out, outDirs, static_site_data,
                   dependencies, next_level_dependencies, dep_i, pc, gstack,
                   wstack, lastRender, written, raised, frontier, parsed,
                   missing_resources, warnings, index_attempts>>

PureNext ==
    \/ call_font_css
    \/ call_jalali
    \/ call_read_meta
    \/ call_sort_by_date
    \/ call_parse

PureSpec == PureInit /\ [][PureNext]_vars

----------------------------------------------------------------------------
(* Claims.                                                                 *)

\* position of the item of directory d in the content graph (0 if none)
PosOf(d) ==
    IF id__(d) \in Keys(static_site_data)
    THEN CHOOSE i \in DOMAIN static_site_data : static_site_data[i].id = id__(d)
    ELSE 0

GatherDone == pc = "walk" \/ (pc = "gather" /\ gstack = <<>>)

\* C3: for the source tree of the root and one sub-directory a, the content
\* graph has exactly the ids "." and "a", and the children view computed when
\* item "." is rendered contains exactly the item "a".
C3_ChildrenOfRoot ==
    srcDirs = ExampleTree =>
        /\ GatherDone => Keys(static_site_data) = { <<".">>, <<"a">> }
        /\ lastRender.item_id = <<".">> => Range(lastRender.children) = { <<"a">> }

\* C4: when gather_data_from_source_tree has finished, the item ids are the
\* relative paths of the directories of the source tree ("." for the root), each
\* directory has exactly one item, and the item of a directory was inserted
\* before the items of its descendants, which follow it without a gap.
C4_GatherPreOrder ==
    GatherDone =>
        /\ Keys(static_site_data) = { id__(d) : d \in srcDirs }
        /\ Len(static_site_data) = Cardinality(srcDirs)
        /\ \A d \in srcDirs :
              Cardinality({ i \in DOMAIN static_site_data :
                              static_site_data[i].id = id__(d) }) = 1
        /\ \A d, e \in srcDirs :
              (d # e /\ d \in Ancestors(e)) => PosOf(d) < PosOf(e)
        /\ \A d \in srcDirs :
              LET below == { e \in srcDirs : d \in Ancestors(e) }
              IN  { PosOf(e) : e \in below }
                      = PosOf(d)..(PosOf(d) + Cardinality(below) - 1)

\* C4 witness: ingestion has finished on a tree with a directory two levels down
C4_Witness ==
    /\ GatherDone
    /\ Cardinality(srcDirs) = 3
    /\ \E d \in srcDirs : Len(d) = 2

\* C1: write_bytes(path, producer) keeps an existing target when the build is
\* not forced or the target is neither .html nor .css: the producer is not run
\* and the content is unchanged; in every other case the producer runs, content
\* it returns is the file's content afterwards, and None writes nothing.
C1_WriteBytes ==
    probe.fn = "write_bytes" =>
        LET kept == probe.pre # Absent
                      /\ (~force_recreation
                            \/ probe.path.name.suffix \notin {".html", ".css"})
        IN  IF kept
            THEN ~probe.ran /\ out[probe.path] = probe.pre
            ELSE /\ probe.ran
                 /\ probe.get_bytes \notin {None, Raise} => out[probe.path] = probe.get_bytes
                 /\ probe.get_bytes = None => out[probe.path] = probe.pre

\* C1 witness: a forced build has rewritten an existing .html file
C1_Witness ==
    /\ probe.fn = "write_bytes"
    /\ force_recreation
    /\ probe.pre = "old"
    /\ probe.path.name.suffix = ".html"
    /\ out[probe.path] = "page"

\* C10: each of the nine helpers handed to templates is wrapped: a call never
\* raises into the render, it returns None when the helper raises and the
\* helper's own result otherwise.
C10_Shielded ==
    /\ utility_funcs =
          { "find_url", "find_info", "find_lang", "handle_math", "short_gregorian",
            "short_solar_hijri", "get_author", "sort_by_date", "get_theme_resource" }
    /\ probe.fn \in utility_funcs =>
          /\ probe.res.kind # "raise"
          /\ probe.raw.kind = "raise" => probe.res = NoneVal
          /\ probe.raw.kind # "raise" => probe.res = probe.raw

\* C10 witness: a helper has raised inside its wrapper
C10_Witness ==
    /\ probe.fn = "get_author"
    /\ probe.raw.kind = "raise"
    /\ probe.res = NoneVal

----------------------------------------------------------------------------
(* Claims about whole builds (Spec, FairSpec).                             *)

\* C2: within a build, a non-forced build that follows a complete build
\* changes no output file and writes nothing; and under either flag value an
\* existing output file whose suffix is neither .html nor .css is never
\* overwritten.
C2_RebuildKeeps ==
    [][build' = build =>
          /\ (build > 1 /\ ~force_recreation) => (out' = out /\ written' = written)
          /\ \A p \in OutPaths :
                (out[p] # Absent /\ p.name.suffix \notin {".html", ".css"}) =>
                    (out'[p] = out[p] /\ written'[p] = written[p])]_vars

\* C2 witness: a second, non-forced build has ended over the pages, the image
\* and a stylesheet the builds before it left
C2_Witness ==
    /\ build > 1
    /\ ~force_recreation
    /\ pc = "done"
    /\ out[Path(Root, IndexHtml)] = "page"
    /\ out[Path(Root, File("x", ".png"))] = "src"
    /\ out[Path(ThemeDir, File("t", ".css"))] = "theme"

\* C5: no dependency the resolver is given is written more than once in a
\* build, under either flag value; and when a build into an empty output
\* directory ends, every dependency the theme resolves has been written
\* exactly once.
C5_WrittenOnce ==
    /\ \A p \in frontier : written[p] <= 1
    /\ (pc = "done" /\ build = 1 /\ initFiles = {}) =>
          \A p \in frontier : Reader(theme, p) # None => written[p] = 1

\* C6 (as stated): whenever the resolver is at a .css dependency the theme can
\* resolve, whatever the output holds and whatever the flag, every url of its
\* @font-face rules joins the next level relative to the stylesheet's
\* directory; and when the build ends each such font that exists in the theme
\* exists in the output.
C6_FontsEnqueued ==
    /\ [][(/\ AtDep
           /\ Dep.name.suffix = ".css"
           /\ Reader(theme, Dep) # None
           /\ ~ReadRaises(Dep)) =>
              \A u \in CssUrls(Dep) :
                  Path(Dep.dir, u) \in Range(next_level_dependencies')]_vars
    /\ [](pc = "done" =>
            \A c \in frontier :
                (/\ c.name.suffix = ".css"
                 /\ Reader(theme, c) # None
                 /\ ~ReadRaises(c)) =>
                    \A u \in CssUrls(c) :
                        Exists(theme, Path(c.dir, u)) => out[Path(c.dir, u)] # Absent)

\* C6 (amended): whenever the resolver is at a .css dependency the theme can
\* resolve and does not keep it (it is absent from the output, or the build
\* is forced), every url of its @font-face rules joins the next level relative
\* to the stylesheet's directory; and when the build ends, each font of a
\* stylesheet the resolver has read that exists in the theme was given to the
\* resolver and exists in the output.
C6_FontsEnqueuedWhenRead ==
    /\ [][(/\ AtDep
           /\ ~IsKept(Dep)
           /\ Dep.name.suffix = ".css"
           /\ Reader(theme, Dep) # None
           /\ ~ReadRaises(Dep)) =>
              \A u \in CssUrls(Dep) :
                  Path(Dep.dir, u) \in Range(next_level_dependencies')]_vars
    /\ [](pc = "done" =>
            \A c \in parsed :
                \A u \in CssUrls(c) :
                    Exists(theme, Path(c.dir, u)) =>
                        /\ Path(c.dir, u) \in frontier
                        /\ out[Path(c.dir, u)] # Absent)

\* C6 witness: a forced build has read a stylesheet that was already in the
\* output, and ended with the font it references copied
C6_Witness ==
    /\ pc = "done"
    /\ force_recreation
    /\ Path(ThemeDir, File("t", ".css")) \in initFiles
    /\ Path(ThemeDir, File("t", ".css")) \in parsed
    /\ FontName \in theme[Path(ThemeDir, File("t", ".css"))].urls
    /\ Path(ThemeDir, FontName) \in frontier
    /\ out[Path(ThemeDir, FontName)] = "theme"

\* C7: the dependency loop ends for every theme and either flag value, cyclic
\* stylesheet references included.
C7_ResolverTerminates == (pc = "resolve") ~> (pc \in {"done", "aborted"})

\* C8: a step whose byte producer raises writes nothing and leaves the build
\* running: no exception leaves build_static_site.
C8_ProducerContained == [][raised' => (pc' # "aborted" /\ out' = out)]_vars

\* C9: when the resolver is at a .css dependency that only the font synthesis
\* can produce and the synthesis finds no font, the stylesheet is not written
\* and the resolver goes on to the next dependency.
C9_SynthesisContained ==
    [][(/\ AtDep
        /\ ~IsKept(Dep)
        /\ Reader(theme, Dep) = "synth"
        /\ ReadRaises(Dep)) =>
           (pc' = "resolve" /\ dep_i' = dep_i + 1 /\ out' = out)]_vars

\* C11: when a build ends, every resource name recorded as missing has been
\* reported by exactly one warning, whatever the number of levels the resolver
\* went through (none included); and no warning is logged while a level of
\* dependencies is still to be resolved.
C11_MissingWarnedOnce ==
    /\ pc = "done" => \A r \in missing_resources : warnings[r] = 1
    /\ \A r \in LookupNames : warnings[r] > 0 => next_level_dependencies = <<>>

\* C12: every file a build writes and every directory it creates lies under
\* the build root, whatever reference the pages hold, "/../t.css" included.
C12_UnderBuildRoot ==
    /\ \A p \in OutPaths : (written[p] > 0 \/ out[p] # Absent) => ~Escapes(p.dir)
    /\ \A d \in outDirs : ~Escapes(d)

\* C14: for every valid Gregorian date of the years converted, converting it
\* to the Solar Hijri calendar and back gives the same date.
C14_RoundTrip ==
    probe.fn = "gregorian_to_jalali" => probe.res.val = probe.arg.val

\* C14 witness: 29 February 2024 has been converted to 10 Esfand 1402 and back
C14_Witness ==
    /\ probe.fn = "gregorian_to_jalali"
    /\ probe.arg.val = <<2024, 2, 29>>
    /\ probe.raw.val = <<1402, 12, 10>>
    /\ probe.res.val = <<2024, 2, 29>>

\* a date text that is no date of its calendar: not year-month-day in digits,
\* or a month or day out of range
Malformed(v) ==
    \/ Len(v.val) # 3
    \/ \E i \in 1..3 : ~IsDigits(v.val[i])
    \/ (v.suffix = "" /\ fromisoformat(v.val).kind = "raise")
    \/ (v.suffix # "" /\ ~MatchesShc(v.val))
    \/ ToInt(v.val[2]) \notin 1..12
    \/ ToInt(v.val[3]) \notin 1..31

\* C13: read_meta returns normally; every key ending in "date" whose value is
\* a malformed date string, with or without the SHC/JC suffix, is null in the
\* result; every other key keeps its value.
C13_MalformedDateIsNull ==
    probe.fn = "read_meta" =>
        /\ probe.res.kind # "raise"
        /\ \A k \in DOMAIN probe.arg.val :
              /\ (EndsWithDate(k) /\ Malformed(probe.arg.val[k])) =>
                    probe.res.val[k] = NoneVal
              /\ ~EndsWithDate(k) => probe.res.val[k] = probe.arg.val[k]

\* the date the claim gives an item: 0 when none is discovered or it is null
DateOf(item) == IF find_date(item)[1] THEN find_date(item)[2] ELSE 0

\* the place of an item of the result in the input
InputPos(x) == CHOOSE i \in DOMAIN probe.arg.val : probe.arg.val[i] = x

\* the result is a permutation of the input
IsPermutation ==
    /\ Len(probe.res.val) = Len(probe.arg.val)
    /\ Range(probe.res.val) = Range(probe.arg.val)

\* C15 (as stated): sort_by_date returns a permutation of its input in
\* non-increasing date order, every item without a date or with a null date
\* after every dated item, items of equal date in their input order.
C15_SortByDate ==
    probe.fn = "sort_by_date" =>
        /\ IsPermutation
        /\ \A i, j \in DOMAIN probe.res.val : i < j =>
              LET a == probe.res.val[i]
                  b == probe.res.val[j]
              IN  /\ DateOf(a) >= DateOf(b)
                  /\ ~(DateOf(a) = 0 /\ DateOf(b) # 0)
                  /\ DateOf(a) = DateOf(b) => InputPos(a) < InputPos(b)

\* C15 (amended): sort_by_date returns a permutation of its input in
\* non-increasing order of the sort date, which is the item's date and the
\* earliest date (day 1) for an item without a date or with a null date;
\* items of equal sort date keep their input order, so an item without a date
\* comes after every item dated later than day 1 and ties with one dated day 1.
C15_SortByDateKey ==
    probe.fn = "sort_by_date" =>
        /\ IsPermutation
        /\ \A i, j \in DOMAIN probe.res.val : i < j =>
              LET a == probe.res.val[i]
                  b == probe.res.val[j]
                  ka == IF DateOf(a) = 0 THEN 1 ELSE DateOf(a)
                  kb == IF DateOf(b) = 0 THEN 1 ELSE DateOf(b)
              IN  /\ ka >= kb
                  /\ ~(DateOf(a) = 0 /\ DateOf(b) > 1)
                  /\ ka = kb => InputPos(a) < InputPos(b)

\* C15 witness: dates 2, 3 and none come back as 3, 2, none
C15_Witness ==
    /\ probe.fn = "sort_by_date"
    /\ Len(probe.arg.val) = 3
    /\ [i \in 1..3 |-> DateOf(probe.arg.val[i])] = <<2, 3, 0>>
    /\ [i \in 1..3 |-> DateOf(probe.res.val[i])] = <<3, 2, 0>>

\* the lines first..last of the text parsed, each with its line end and
\* without its leading spaces, up to indent of them
RECURSIVE LinesText(_, _, _)
LinesText(first, last, indent) ==
    IF first > last \/ first > Len(probe.arg.val) THEN <<>>
    ELSE LET ln == probe.arg.val[first]
             skip == IF RunOf(ln, " ") < indent THEN RunOf(ln, " ") ELSE indent
         IN  Drop(ln, skip) \o <<Newline>> \o LinesText(first + 1, last, indent)

FourLines == << <<"$", "$", "$">>, <<"label">>, <<"E=mc^2">>, <<"$", "$", "$">> >>

----------------------------------------------------------------------------
(* Claims about the templates of the pages (TemplateSpec).                 *)

\* the directory of the latest render
RenderedDir == CHOOSE d \in srcDirs : id__(d) = lastRender.item_id

\* an index.html has been rendered, and this is its render
IndexRendered == lastRender.template_name # NoTemplate

\* C17: a directory whose metadata carries 'dir_listing_template' can be
\* rendered with that listing template: the index.html of a directory whose
\* meta.json holds that key alone and which has no fragment is rendered with
\* the template the key names.
C17_ListingTemplateUsed ==
    (/\ IndexRendered
     /\ srcMeta[RenderedDir] = {"dir_listing_template"}
     /\ srcMds[RenderedDir] = {})
        => lastRender.template_name =
               meta_value(lastRender.item_id, "dir_listing_template")

\* the name a directory inherits: the value of child_key in the nearest strict
\* ancestor that defines it, else the root's value of default_key, else the
\* name default_key
InheritedName(d, child_key, default_key) ==
    LET anc == { a \in Ancestors(d) : a # d /\ child_key \in srcMeta[a] }
    IN  IF anc # {}
        THEN meta_value(id__(CHOOSE a \in anc : \A b \in anc : Len(b) <= Len(a)),
                        child_key)
        ELSE IF default_key \in srcMeta[Root]
        THEN meta_value(id__(Root), default_key)
        ELSE Literal(default_key)

\* C18: the page template a directory inherits is the child_template of its
\* nearest strict ancestor that defines one, else the root's default_template
\* or the name 'default_template', and likewise its listing template with
\* child_dir_listing_template and default_dir_listing_template: in every call
\* of the walker, and in every render of an index.html, where a directory
\* without a template key of its own is rendered with the inherited name.
C18_InheritedTemplates ==
    /\ \A i \in DOMAIN wstack :
          /\ wstack[i].default_template_name =
                 InheritedName(wstack[i].dir, "child_template", "default_template")
          /\ wstack[i].default_dir_listing_template_name =
                 InheritedName(wstack[i].dir, "child_dir_listing_template",
                               "default_dir_listing_template")
    /\ IndexRendered =>
          /\ lastRender.default_template_name =
                 InheritedName(RenderedDir, "child_template", "default_template")
          /\ lastRender.default_dir_listing_template_name =
                 InheritedName(RenderedDir, "child_dir_listing_template",
                               "default_dir_listing_template")
          /\ (srcMeta[RenderedDir] \cap {"template", "dir_listing_template"} = {}
                /\ (srcMeta[RenderedDir] # {} \/ srcMds[RenderedDir] # {}))
                => lastRender.template_name =
                       InheritedName(RenderedDir, "child_template", "default_template")
          /\ (srcMeta[RenderedDir] = {} /\ srcMds[RenderedDir] = {})
                => lastRender.template_name =
                       InheritedName(RenderedDir, "child_dir_listing_template",
                                     "default_dir_listing_template")

\* C18 witness: the root sets child_template, a sets child_template too and
\* a/a is rendered with a's template; or the root alone sets it and a/a, two
\* levels down, is rendered with the root's
C18_Witness ==
    /\ IndexRendered
    /\ lastRender.item_id = id__(<< <<"a">>, <<"a">> >>)
    /\ srcMeta[Root] = {"child_template"}
    /\ srcMeta[<< <<"a">> >>] = {"title"}
    /\ srcMeta[<< <<"a">>, <<"a">> >>] = {"child_template"}
    /\ lastRender.template_name = meta_value(id__(Root), "child_template")

----------------------------------------------------------------------------
(* Claims about the files of the source directories (TreeSpec).            *)

\* the *.css and *.js files of the source tree
Assets == { f \in srcFiles : f.name.suffix \in {".css", ".js"} }

\* the walker has written source file f in this build
WalkerWrote(f) == written[f] > 0

\* the css and js lists of the latest index render hold the assets of its
\* directory that were written
AssetsListed ==
    IndexRendered =>
        \A f \in Assets :
            (WalkerWrote(f) /\ id__(f.dir) = lastRender.item_id)
                => f.name \in Range(IF f.name.suffix = ".css"
                                    THEN lastRender.css ELSE lastRender.js)

\* C19 (as stated): every *.css and *.js source file the walker writes is
\* written with the bytes of the source file, and its name is in the css/js
\* list of its directory's index render; every other file written is a copy.
C19_AssetsVerbatim ==
    /\ \A f \in srcFiles : WalkerWrote(f) => out[f] = srcText[f]
    /\ AssetsListed

\* C19 (amended): every *.css and *.js source file the walker writes is written
\* with its text rendered as a template: the text without the line end at its
\* end and with the value of each template expression in its place; its name
\* is in the css/js list of its directory's index render; every other file
\* written is a copy of the source file.
C19_AssetsRendered ==
    /\ \A f \in Assets :
          WalkerWrote(f) =>
             /\ srcText[f] \in {"src", "src\n"} => out[f] = "src"
             /\ srcText[f] = "{{ 1 }}src" => out[f] = "1src"
    /\ \A f \in srcFiles \ Assets : WalkerWrote(f) => out[f] = srcText[f]
    /\ AssetsListed

\* C19 witness: s.css, whose text ends with a line end, has been written
\* without it, and the root's index.html rendered with s.css in its css list
C19_Witness ==
    /\ srcText = (Path(Root, File("s", ".css")) :> "src\n")
    /\ WalkerWrote(Path(Root, File("s", ".css")))
    /\ out[Path(Root, File("s", ".css"))] = "src"
    /\ IndexRendered
    /\ lastRender.item_id = id__(Root)
    /\ lastRender.css = <<File("s", ".css")>>

----------------------------------------------------------------------------
(* Claims about the scan of the rendered pages (PageSpec).                 *)

\* the references the scan is to collect: the href of every stylesheet link and
\* the src of every element, where it starts with "/"
Referenced ==
    { e.path : e \in { x \in pageDeps :
                          /\ x.rooted
                          /\ \/ x.attr = "src"
                             \/ x.tag = "link" /\ x.attr = "href" /\ x.rel = "stylesheet" } }

\* C20: each time the content of an index.html is produced, the dependency list
\* gains the href of every stylesheet link and the src of every element of the
\* page, head or body, that start with "/", each without its "/"; nothing else
\* is appended and no earlier entry is removed.
C20_ScanCollectsAll ==
    [][(lastRender' # lastRender /\ lastRender'.template_name # NoTemplate) =>
          /\ Len(dependencies') >= Len(dependencies)
          /\ SubSeq(dependencies', 1, Len(dependencies)) = dependencies
          /\ Range(SubSeq(dependencies', Len(dependencies) + 1, Len(dependencies')))
                = Referenced]_vars

----------------------------------------------------------------------------
(* Claims about the walk as a whole (TreeSpec).                            *)

\* generate_static_site_item(SOURCE_PATH, ...) has returned
WalkDone == pc = "walk" /\ wstack = <<>>

\* the index.html of a directory is attempted at most once, and only after the
\* index.html of each of its sub-directories and each of its files
IndexAttemptedLast ==
    \A d \in srcDirs :
        /\ index_attempts[d] <= 1
        /\ index_attempts[d] = 1 =>
              /\ \A c \in SubDirs(srcDirs, d) : index_attempts[c] = 1
              /\ \A f \in srcFiles : (f.dir = d /\ f \notin failing) => out[f] # Absent

\* C21 (as stated): when the walk into an empty output directory is over, every
\* source directory has its output directory with an index.html in it; the
\* write of the index.html was attempted exactly once, after the files and
\* sub-directories of the directory.
C21_IndexInEveryDirectory ==
    /\ IndexAttemptedLast
    /\ (WalkDone /\ initFiles = {}) =>
          \A d \in srcDirs :
              /\ d \in outDirs
              /\ index_attempts[d] = 1
              /\ out[Path(d, IndexHtml)] # Absent

\* C21 (amended): when the walk into an empty output directory is over, every
\* source directory has its output directory, and an index.html in it unless
\* the production of that page raised; the write of the index.html was
\* attempted exactly once, after the files and sub-directories of the directory.
C21_IndexUnlessRaised ==
    /\ IndexAttemptedLast
    /\ (WalkDone /\ initFiles = {}) =>
          \A d \in srcDirs :
              /\ d \in outDirs
              /\ index_attempts[d] = 1
              /\ out[Path(d, IndexHtml)] # Absent <=> Path(d, IndexHtml) \notin failing

\* C21 witness: the walk of a tree of three directories into an empty output
\* directory is over, and every index.html is there
C21_Witness ==
    /\ WalkDone
    /\ initFiles = {}
    /\ Cardinality(srcDirs) = 3
    /\ \A d \in srcDirs : out[Path(d, IndexHtml)] = "page"

----------------------------------------------------------------------------
(* Claims about the resolution of one dependency (Spec).                   *)

\* the theme holds a file at path p
InTheme(p) == p \in DOMAIN theme /\ theme[p].kind = "file"

\* the for loop handles a dependency that is not in the output, or any
\* dependency of a forced build
Resolving == AtDep /\ (force_recreation \/ out[Dep] = Absent)

\* the step writes content at the path of the dependency if the path is free
\* or a forced build rewrites it, and nothing else anywhere
WritesOnly(content) ==
    /\ out'[Dep] \in {out[Dep], content}
    /\ out[Dep] = Absent => out'[Dep] = content
    /\ Dep.name.suffix = ".css" => out'[Dep] = content
    /\ \A p \in OutPaths \ {Dep} : out'[p] = out[p]

----------------------------------------------------------------------------
(* Claims about the font stylesheet synthesis (PureSpec).                  *)

\* the entries of the description that are to give a rule: a font-family from
\* the overrides or the common properties, and a sibling font file
FontEntries ==
    LET d == probe.arg.val.description
    IN  { i \in DOMAIN d.files :
            /\ DictGetOr(d.files[i][2], "font-family",
                         DictGetOr(d.common, "font-family", "")) # ""
            /\ \E sfx \in {"woff2", "woff", "ttf", "otf"} :
                  <<d.files[i][1], ".", sfx>> \in probe.arg.val.siblings }

\* the rule is that of entry i of the description: src comes last and starts
\* with local(...), the other declarations are the common properties
\* overridden by those of the entry
RuleOf(r, i) ==
    LET d == probe.arg.val.description
        keys == d.files[i][2]
    IN  /\ r.file = d.files[i][1]
        /\ r.decls[Len(r.decls)][1] = "src"
        /\ r.decls[Len(r.decls)][2][1].fn = "local"
        /\ { r.decls[k] : k \in 1..(Len(r.decls) - 1) }
              = { p \in Range(keys) : p[1] # "src" }
                  \cup { p \in Range(d.common) : p[1] # "src" /\ ~DictHas(keys, p[1]) }

\* C23: the synthesis gives exactly one @font-face rule for each file stem that
\* has a font-family and an existing sibling font file and none for another
\* stem; each rule has its src, starting with local(...), last, after the
\* common properties overridden by the stem's own; without any rule the
\* synthesis fails.
C23_OneRulePerFont ==
    probe.fn = "font_css" =>
        IF FontEntries = {} THEN probe.res = RaiseVal
        ELSE /\ probe.res.kind = "css"
             /\ Len(probe.res.val) = Cardinality(FontEntries)
             /\ \A i \in FontEntries : \E k \in DOMAIN probe.res.val :
                   RuleOf(probe.res.val[k], i)

----------------------------------------------------------------------------
(* Claims about the end of a math block (PureSpec).                        *)

\* ln, after its leading spaces (at most three of them unless indented), is a
\* run of at least n "$" followed by nothing but spaces
ClosingRun(ln, n, indented) ==
    LET rest == Drop(ln, RunOf(ln, " "))
        run == RunOf(rest, "$")
    IN  /\ indented \/ RunOf(ln, " ") <= 3
        /\ run >= n
        /\ run >= 3
        /\ \A i \in (run + 1)..Len(rest) : rest[i] = " "

\* every math block of the text parsed ends at the first line after its
\* opening fence that is a closing run, or with the text; the lines between
\* are its content, and no other block starts inside it
ClosedByRun(indented) ==
    \A k \in DOMAIN probe.res.val :
        LET b == probe.res.val[k]
            opening == probe.arg.val[b.start]
        IN  /\ \A j \in (b.start + 1)..(b.end - 1) :
                  ~ClosingRun(probe.arg.val[j], b.fence_length, indented)
            /\ b.end <= Len(probe.arg.val)
                  => ClosingRun(probe.arg.val[b.end], b.fence_length, indented)
            /\ b.literal = LinesText(b.start + 1, b.end - 1, RunOf(opening, " "))
            /\ \A m \in DOMAIN probe.res.val :
                  m # k => probe.res.val[m].start \notin b.start..b.end

\* C24 (as stated): an open math block is closed by a later line exactly when
\* the line, after its leading spaces, is a run of "$" at least as long as the
\* opening fence followed by spaces only; any other line is kept as content,
\* and no line inside the block starts another block.
C24_ClosingFence ==
    probe.fn = "parse" => ClosedByRun(TRUE)

\* C24 (amended): an open math block is closed by a later line exactly when
\* the line, after at most three leading spaces, is a run of "$" at least as
\* long as the opening fence followed by spaces only; any other line, a run
\* indented by four spaces or more included, is kept as content, and no line
\* inside the block starts another block.
C24_ClosingFenceIndented ==
    probe.fn = "parse" => ClosedByRun(FALSE)

\* C24 witness: a fence of four is not closed by a fence of three, which is
\* kept as content, and is closed by a fence of four
C24_Witness ==
    /\ probe.fn = "parse"
    /\ probe.arg.val = << <<"$", "$", "$", "$">>, <<"$", "$", "$">>, <<"E=mc^2">>,
                          <<"$", "$", "$", "$">> >>
    /\ Len(probe.res.val) = 1
    /\ probe.res.val[1].end = 4
    /\ probe.res.val[1].literal = <<"$", "$", "$", Newline, "E=mc^2", Newline>>

----------------------------------------------------------------------------
(* Claims about get_theme_resource (UnitSpec).                             *)

\* the theme holds a file of the name
Matches(name) ==
    \E p \in DOMAIN theme :
        theme[p].kind = "file" /\ <<p.name.stem, p.name.suffix>> = name.val

\* the url of the theme file of the name
UrlOf(name) ==
    LET p == CHOOSE q \in DOMAIN theme :
                 theme[q].kind = "file" /\ <<q.name.stem, q.name.suffix>> = name.val
    IN  Str(<<"/">> \o as_posix(p.dir) \o <<"/">> \o name.val)

\* C25: get_theme_resource returns the path of the first candidate, in list
\* order, that matches a theme file, and then records nothing as missing;
\* when no candidate matches, every candidate name is added to the missing
\* resources, and the result is the default's path if the default matches a
\* theme file, else "#".
C25_MissingCandidates ==
    probe.fn = "get_theme_resource(names, default)" =>
        LET names == probe.arg.val[1]
            default == probe.arg.val[2]
            seq == IF names.kind = "None" THEN <<>>
                   ELSE IF names.kind = "list" THEN names.val ELSE <<names>>
            hits == { i \in DOMAIN seq : Matches(seq[i]) }
        IN  IF hits # {}
            THEN /\ probe.res = UrlOf(seq[CHOOSE i \in hits : \A j \in hits : i <= j])
                 /\ missing_resources = {}
            ELSE /\ missing_resources = { seq[i].val : i \in DOMAIN seq }
                 /\ probe.res = IF default.kind # "None" /\ Matches(default)
                                THEN UrlOf(default) ELSE Str(<<"#">>)


-----------------------------------------------------------------------------
(* Claims about the order of the three phases (Spec).                      *)

\* the content item of every source directory is in the content graph
AllIngested == Keys(static_site_data) = { id__(d) : d \in srcDirs }

\* a step of a build that touches the output tree or renders a template
TouchesOutput ==
    /\ build' = build
    /\ \/ out' # out
       \/ outDirs' # outDirs
       \/ written' # written
       \/ (lastRender' # lastRender /\ lastRender' # NoRender)

\* C26: the three phases are strictly ordered. A step creates an output
\* directory, writes a file or renders a template only when every source
\* directory has been ingested; the resolver starts only when the walker has
\* attempted the index.html of every directory; and a build that meets a
\* directory it cannot ingest never leaves the ingestion phase but by aborting,
\* with the output tree as it was before the build.
C26_PhasesOrdered ==
    /\ [][/\ TouchesOutput => (AllIngested /\ pc \notin {"start"})
          /\ (pc # "resolve" /\ pc' = "resolve") =>
                 (wstack = <<>> /\ \A d \in srcDirs : index_attempts[d] = 1)
          /\ pc' \in {"start", "gather"} => ~TouchesOutput]_vars
    /\ [](unreadable # {} =>
             /\ pc \in {"start", "gather", "aborted"}
             /\ out = InitOut(initFiles)
             /\ outDirs = UNION { Ancestors(p.dir) : p \in initFiles }
             /\ \A p \in OutPaths : written[p] = 0)

\* C26 witness: the root was ingested, the files of an earlier build are in the
\* output directory, and the build has aborted at the sub-directory whose
\* meta.json cannot be read
C26_Witness ==
    /\ pc = "aborted"
    /\ unreadable = {<< <<"a">> >>}
    /\ Keys(static_site_data) = { <<".">> }
    /\ initFiles # {}
    /\ out = InitOut(initFiles)


-----------------------------------------------------------------------------
(* Claims about the children view (TreeSpec).                              *)

\* the ids of the directories strictly below directory d
Descendants(d) == { id__(e) : e \in { x \in srcDirs : x # d /\ d \in Ancestors(x) } }

\* C27: the children view of a rendered item holds the items of the strict
\* filesystem descendants of its directory, all of them and no other; the
\* sibling directory "ab" of "a" is not among the children of "a".
C27_ChildrenAreDescendants ==
    \A d \in srcDirs :
        lastRender.item_id = id__(d) =>
            /\ Range(lastRender.children) = Descendants(d)
            /\ d = << <<"a">> >> => <<"a", "b">> \notin Range(lastRender.children)


-----------------------------------------------------------------------------
(* Claims about the pages a build keeps (Spec).                            *)

\* the index.html of directory d was in the output directory when the running
\* build began: it is there and the build has not written it
IndexKept(d) ==
    /\ out[Path(d, IndexHtml)] # Absent
    /\ written[Path(d, IndexHtml)] = 0

\* C28: references are collected only from the index.html files the running
\* build produced. The step that keeps an index.html renders nothing and adds
\* no dependency; every dependency the walker hands over is a reference of the
\* page, and there is one only if the build wrote an index.html; and in a build that is not forced
\* and finds every index.html in place no dependency is ever collected, the
\* resolver is given none and no theme resource is written, one that is absent
\* from the output directory included.
C28_KeptPagesNotScanned ==
    /\ [][(/\ pc = "walk"
           /\ wstack # <<>>
           /\ index_attempts' # index_attempts
           /\ Keeps(out, force_recreation, Path(wstack[Len(wstack)].dir, IndexHtml))) =>
              (dependencies' = dependencies /\ lastRender' = lastRender /\ out' = out)]_vars
    /\ [](pc = "walk" =>
             /\ Range(dependencies) \subseteq Range(Scan(pageDeps))
             /\ dependencies # <<>> =>
                   \E d \in srcDirs : written[Path(d, IndexHtml)] > 0)
    /\ []((~force_recreation /\ \A d \in srcDirs : IndexKept(d)) =>
             /\ dependencies = <<>>
             /\ next_level_dependencies = <<>>
             /\ lastRender = NoRender
             /\ \A p \in ThemePaths : written[p] = 0)

\* C28 witness: a build that is not forced has ended over the pages of an
\* earlier build; the pages reference a stylesheet the theme holds, and the
\* output directory is still without it
C28_Witness ==
    /\ pc = "done"
    /\ ~force_recreation
    /\ \A d \in srcDirs : IndexKept(d)
    /\ \E p \in CssPaths :
          /\ p \in Range(Scan(pageDeps))
          /\ Exists(theme, p)
          /\ out[p] = Absent

====
